---- MODULE Spec2Model ----
(***************************************************************************)
(* Smart Plant Monitoring System (Raspberry Pi).                           *)
(*                                                                         *)
(* PumpController (src/RaspberryPi/pump.py) driven by a sequential caller, *)
(* the retry core of APIClient (src/RaspberryPi/api_client.py), the        *)
(* threshold merge and the main loop of PlantMonitor (src/main.py).        *)
(*                                                                         *)
(* Time is the value of time.time(), counted in clock ticks of 1/Res       *)
(* second, so that fractions of a second exist; the clock never runs       *)
(* backwards and time.sleep(d) takes exactly d.                            *)
(***************************************************************************)
EXTENDS Integers, Sequences, FiniteSets, TLC

(* ---- program constants (src/RaspberryPi/config.py) ---- *)
PUMP_MAX_DURATION == 10
PUMP_MIN_INTERVAL == 300
AUTO_WATER_DURATION == 5
API_MAX_RETRIES == 3
API_RETRY_DELAY == 5
CONNECTED_WINDOW == 300
DEFAULT_SOIL_MIN == 30
DEFAULT_SOIL_MAX == 70
DEFAULT_TEMP_MIN == 15
DEFAULT_TEMP_MAX == 30
DEFAULT_HUMIDITY_MIN == 40
DEFAULT_HUMIDITY_MAX == 80
DEFAULT_LIGHT_MIN == 200
DEFAULT_LIGHT_MAX == 2000
TELEMETRY_INTERVAL == 15
IMAGE_CAPTURE_INTERVAL == 300
COMMAND_POLL_INTERVAL == 10
AUTO_WATER_CHECK_INTERVAL == 60
STATUS_INTERVAL == 60
LOOP_SLEEP == 1
SETTLE_SLEEP == 2
DEFAULT_COMMAND_DURATION == 5
SAFETY_MAX_TEMP == 50
SAFETY_MAX_HUMIDITY == 100
ENABLE_AUTO_WATERING == TRUE
ENABLE_SAFETY_CHECKS == TRUE

(* ---- bounds of the model ---- *)
\* clock ticks per second
Res == 2
\* the caller acts within this many ticks after the start and after each
\* further full cooldown
Horizon == 4
\* full cooldowns the model's clock runs through
Cycles == 1
\* calls of the retry core in one behaviour
MaxCalls == 2
\* detections in one image-analysis result
MaxDetections == 2
\* calls of update_thresholds_from_api
MaxMerges == 2
\* iterations of the main loop
MaxTicks == 2
\* commands the backend hands out in one behaviour
MaxCommands == 2

MaxDur == PUMP_MAX_DURATION * Res
MinInt == PUMP_MIN_INTERVAL * Res
\* time.time() when the program starts: the epoch is long past, so the
\* initial last_activation_time = 0 is already a full cooldown away
StartTime == MinInt
\* time.time() at the start of a program on a machine whose clock was never
\* set: it counts from the epoch, and is less than a cooldown
EarlyClocks == {0, MinInt - 1}
\* the instants at which the caller can act after having waited
Instants ==
    EarlyClocks
    \cup {StartTime + k * MinInt + j : k \in 0..Cycles, j \in 0..Horizon}

VARIABLES
    now,                   \* time.time(), in ticks
    use_mock,              \* PumpController.use_mock
    is_running,            \* PumpController.is_running
    last_activation_time,  \* PumpController.last_activation_time
    total_activations,     \* PumpController.total_activations
    relay,                 \* the pump relay is energized (GPIO pin state)
    pc,                    \* the caller's position inside activate, or "idle"
    op,                    \* the controller operation called last, "none"
                           \* once time has passed since
    call,                  \* arguments of the activate call: reason, req
    duration,              \* local `duration` of activate after line 120
    start_time,            \* local `start_time` of activate
    result,                \* what the last call gave back to its caller
    first,                 \* how the activate call ended that returned at the
                           \* very instant this one was issued, else "none"
    ended_at,              \* when the last completed activation switched off
    before,                \* is_running and relay when the last call was made
    initialized,           \* APIClient: _init_ has run on the object
    consecutive_failures,  \* APIClient.consecutive_failures
    last_successful_request, \* APIClient.last_successful_request (-1: None)
    cpc,                   \* position inside _make_request, or "idle"
    attempt,               \* loop variable of _make_request
    log,                   \* outcomes of the attempts of the current call
    waits,                 \* backoff delays slept in the current call
    cresult,               \* what _make_request gave back
    calls,                 \* calls of _make_request so far
    cbefore,               \* the health fields and the time when the current
                           \* call of _make_request was made
    connected,             \* what is_connected gave back just now, or "none"
    thresholds,            \* PlantMonitor.thresholds
    identified_plant,      \* PlantMonitor.identified_plant
    payload,               \* plant_data of the update_thresholds_from_api
                           \* call that has just been made
    tbefore,               \* thresholds when that call was made
    merges,                \* calls of update_thresholds_from_api so far
    opc,                   \* PlantMonitor: position of the main thread
    running,               \* PlantMonitor.running
    ticks,                 \* iterations of the main loop begun
    issued,                \* commands the backend has handed out so far
    command,               \* the command execute_command is running on
    acks,                  \* acknowledge_command calls made for `command`
    released,              \* the resources shutdown has released, in order
    env,                   \* the faults the surroundings show in this run
    valid,                 \* what is_reading_valid returned, called alone
    wrapped,               \* a method of the client called on a response
    current_time,          \* local `current_time` of the task being run
    sensor_data,           \* local `sensor_data` of process_telemetry
    commands,              \* types of the commands of the polled batch not
                           \* yet executed
    sent,                  \* the reading passed to the send_telemetry call
                           \* in progress
    last_telemetry_time,   \* PlantMonitor.last_telemetry_time
    last_image_time,       \* PlantMonitor.last_image_time
    last_command_poll_time, \* PlantMonitor.last_command_poll_time
    last_auto_water_check, \* PlantMonitor.last_auto_water_check
    last_status_display    \* local `last_status_display` of run

pvars == <<use_mock, is_running, last_activation_time, total_activations,
           relay, pc, op, call, duration, start_time, result, first,
           ended_at, before>>
cvars == <<initialized, consecutive_failures, last_successful_request, cpc,
           attempt, log, waits, cresult, calls, cbefore, connected>>
mvars == <<thresholds, identified_plant, payload, tbefore, merges>>
stamps == <<last_telemetry_time, last_image_time, last_command_poll_time,
            last_auto_water_check, last_status_display>>
ovars == <<opc, running, ticks, issued, command, acks, released, env,
           wrapped, valid, current_time, sensor_data, commands, sent, stamps>>
vars == <<now, pvars, cvars, mvars, ovars>>

\* what the operations of one component leave alone
notpump == <<cvars, mvars, ovars>>
notclient == <<pvars, mvars, ovars>>
notmerge == <<now, pvars, cvars, ovars>>

Min(a, b) == IF a <= b THEN a ELSE b

\* Python int(x) of the rational n/d (d > 0): truncation toward zero
IntTrunc(n, d) == IF n >= 0 THEN n \div d ELSE -((-n) \div d)

(* ======================= PumpController ======================= *)

\* a requested duration: a number (in ticks) or a value that is no number
\* (the duration of a water command comes out of a JSON payload)
Num(v) == [num |-> TRUE, v |-> v]
NotANumber == [num |-> FALSE, v |-> 0]
Requests == {Num(-1), Num(0), Num(3), Num(MaxDur + 1), NotANumber}

\* the call sites of activate: main.py:141 (auto) and main.py:281 (command)
CallSites ==
    {[reason |-> "auto", req |-> Num(AUTO_WATER_DURATION * Res)]}
    \cup {[reason |-> "command", req |-> r] : r \in Requests}

\* how one GPIO.output sequence of _set_pump_state can go
\*   ok       the write succeeds
\*   mode_ok  RuntimeError "pin numbering mode", re-setup, second write succeeds
\*   mode_err RuntimeError "pin numbering mode", re-setup or second write raises
\*   err      any other error: re-raised
WriteOutcomes == {"ok", "mode_ok", "mode_err", "err"}

Pending == [status |-> "pending", success |-> FALSE, reason |-> "",
            remaining |-> 0, duration |-> 0]
NoResult == [status |-> "none", success |-> FALSE, reason |-> "",
             remaining |-> 0, duration |-> 0]
Returned(s, r, n, d) == [status |-> "returned", success |-> s, reason |-> r,
                         remaining |-> n, duration |-> d]
Raised(exc) == [status |-> "raised", success |-> FALSE, reason |-> exc,
                remaining |-> 0, duration |-> 0]

\* _set_pump_state(active) under write outcome o: the relay afterwards and
\* whether an exception leaves the method
set_pump_state(active, o) ==
    IF use_mock
    THEN [relay |-> relay, raised |-> FALSE]
    ELSE IF o \in {"ok", "mode_ok"}
         THEN [relay |-> active, raised |-> FALSE]
         ELSE [relay |-> relay, raised |-> TRUE]

\* can_activate() without the is_running check of lines 97-98
can_activate_norunning ==
    IF now - last_activation_time < MinInt
    THEN [ok |-> FALSE, reason |-> "Must wait",
          remaining |-> IntTrunc(MinInt - (now - last_activation_time), Res)]
    ELSE [ok |-> TRUE, reason |-> "", remaining |-> 0]

\* can_activate() rounding the remaining seconds up instead of int()
can_activate_roundup ==
    IF is_running
    THEN [ok |-> FALSE, reason |-> "Pump already running", remaining |-> 0]
    ELSE IF now - last_activation_time < MinInt
         THEN [ok |-> FALSE, reason |-> "Must wait",
               remaining |->
                   IntTrunc(MinInt - (now - last_activation_time) + Res - 1, Res)]
         ELSE [ok |-> TRUE, reason |-> "", remaining |-> 0]

\* can_activate() comparing against PUMP_MAX_DURATION instead of
\* PUMP_MIN_INTERVAL in line 102
can_activate_shortcooldown ==
    IF is_running
    THEN [ok |-> FALSE, reason |-> "Pump already running", remaining |-> 0]
    ELSE IF now - last_activation_time < MaxDur
         THEN [ok |-> FALSE, reason |-> "Must wait",
               remaining |-> IntTrunc(MaxDur - (now - last_activation_time), Res)]
         ELSE [ok |-> TRUE, reason |-> "", remaining |-> 0]

\* can_activate(), lines 89-106: ok, the reason if not, and the N of
\* "Must wait Ns"
can_activate ==
    IF is_running
    THEN [ok |-> FALSE, reason |-> "Pump already running", remaining |-> 0]
    ELSE IF now - last_activation_time < MinInt
         THEN [ok |-> FALSE, reason |-> "Must wait",
               remaining |-> IntTrunc(MinInt - (now - last_activation_time), Res)]
         ELSE [ok |-> TRUE, reason |-> "", remaining |-> 0]

\* line 120 without the cap
clamp_none(d) == d

\* line 120: duration = min(duration, PUMP_MAX_DURATION)
clamp(d) == Min(d, MaxDur)

InActivate == {"check", "on", "wait", "off", "track", "recover"}

NoCall == [reason |-> "", req |-> Num(0)]
NoBefore == [running |-> FALSE, relay |-> FALSE]
Snapshot == [running |-> is_running, relay |-> relay]

\* how a call ended, as the caller sees it
Kind(r) ==
    IF r.status = "raised" THEN "raised"
    ELSE IF r.status # "returned" THEN "none"
    ELSE IF r.success THEN "success"
    ELSE IF r.reason = "Error" THEN "error"
    ELSE "rejected"

\* the caller issues its calls at the instants, and may issue one further
\* call at once when a call has returned
CallerActs == now \in Instants \/ (op = "activate" /\ first = "none")

\* activate(duration, reason), line 120: min() of a non-number raises
\* TypeError outside the try block; otherwise the duration is clamped
Call(c) ==
    /\ pc = "idle"
    /\ CallerActs
    /\ op' = "activate"
    /\ call' = c
    /\ first' = IF op = "activate" THEN Kind(result) ELSE "none"
    /\ before' = Snapshot
    /\ IF c.req.num
       THEN /\ duration' = clamp(c.req.v)
            /\ pc' = "check"
            /\ result' = Pending
       ELSE /\ result' = Raised("TypeError")
            /\ UNCHANGED <<duration, pc>>
    /\ UNCHANGED <<now, use_mock, is_running, last_activation_time,
                   total_activations, relay, start_time, ended_at, notpump>>

\* the interlock checks with the cooldown clock started on acceptance
Check_stamps ==
    /\ pc = "check"
    /\ LET ca == can_activate IN
       IF ~ca.ok
       THEN /\ result' = Returned(FALSE, ca.reason, ca.remaining, 0)
            /\ pc' = "idle"
            /\ duration' = 0
            /\ UNCHANGED <<is_running, start_time, last_activation_time>>
       ELSE /\ is_running' = TRUE
            /\ start_time' = now
            /\ last_activation_time' = now
            /\ pc' = "on"
            /\ UNCHANGED <<result, duration>>
    /\ UNCHANGED <<now, use_mock, total_activations, relay, op, call, first,
                   ended_at, before, notpump>>

\* the interlock checks with a rejection restarting the cooldown clock
Check_stampsrejection ==
    /\ pc = "check"
    /\ LET ca == can_activate IN
       IF ~ca.ok
       THEN /\ result' = Returned(FALSE, ca.reason, ca.remaining, 0)
            /\ pc' = "idle"
            /\ duration' = 0
            /\ last_activation_time' = now
            /\ UNCHANGED <<is_running, start_time>>
       ELSE /\ is_running' = TRUE
            /\ start_time' = now
            /\ pc' = "on"
            /\ UNCHANGED <<result, duration, last_activation_time>>
    /\ UNCHANGED <<now, use_mock, total_activations, relay, op, call, first,
                   ended_at, before, notpump>>

\* lines 122-137: the interlock checks; on acceptance is_running is set
Check ==
    /\ pc = "check"
    /\ LET ca == can_activate IN
       IF ~ca.ok
       THEN /\ result' = Returned(FALSE, ca.reason, ca.remaining, 0)
            /\ pc' = "idle"
            /\ duration' = 0
            /\ UNCHANGED <<is_running, start_time>>
       ELSE /\ is_running' = TRUE
            /\ start_time' = now
            /\ pc' = "on"
            /\ UNCHANGED <<result, duration>>
    /\ UNCHANGED <<now, use_mock, last_activation_time, total_activations,
                   relay, op, call, first, ended_at, before, notpump>>

\* line 138: the on-write
SwitchOn(o) ==
    /\ pc = "on"
    /\ LET w == set_pump_state(TRUE, o) IN
       /\ relay' = w.relay
       /\ pc' = IF w.raised THEN "recover" ELSE "wait"
    /\ UNCHANGED <<now, use_mock, is_running, last_activation_time,
                   total_activations, op, call, duration, start_time, result,
                   first, ended_at, before, notpump>>

\* line 141: time.sleep(duration); a negative duration raises ValueError
Wait ==
    /\ pc = "wait"
    /\ IF duration < 0
       THEN /\ pc' = "recover"
            /\ now' = now
       ELSE /\ pc' = "off"
            /\ now' = now + duration
    /\ UNCHANGED <<use_mock, is_running, last_activation_time,
                   total_activations, relay, op, call, duration, start_time,
                   result, first, ended_at, before, notpump>>

\* line 144: the off-write
SwitchOff(o) ==
    /\ pc = "off"
    /\ LET w == set_pump_state(FALSE, o) IN
       /\ relay' = w.relay
       /\ pc' = IF w.raised THEN "recover" ELSE "track"
    /\ UNCHANGED <<now, use_mock, is_running, last_activation_time,
                   total_activations, op, call, duration, start_time, result,
                   first, ended_at, before, notpump>>

\* the bookkeeping without line 148
Track_nostamp ==
    /\ pc = "track"
    /\ total_activations' = total_activations + 1
    /\ is_running' = FALSE
    /\ result' = Returned(TRUE, call.reason, 0, now - start_time)
    /\ ended_at' = now
    /\ pc' = "idle"
    /\ duration' = 0
    /\ start_time' = 0
    /\ UNCHANGED <<now, use_mock, last_activation_time, relay, op, call,
                   first, before, notpump>>

\* the bookkeeping without line 149
Track_nocount ==
    /\ pc = "track"
    /\ last_activation_time' = now
    /\ is_running' = FALSE
    /\ result' = Returned(TRUE, call.reason, 0, now - start_time)
    /\ ended_at' = now
    /\ pc' = "idle"
    /\ duration' = 0
    /\ start_time' = 0
    /\ UNCHANGED <<now, use_mock, total_activations, relay, op, call, first,
                   before, notpump>>

\* lines 145-159: bookkeeping and the success result
Track ==
    /\ pc = "track"
    /\ last_activation_time' = now
    /\ total_activations' = total_activations + 1
    /\ is_running' = FALSE
    /\ result' = Returned(TRUE, call.reason, 0, now - start_time)
    /\ ended_at' = now
    /\ pc' = "idle"
    /\ duration' = 0
    /\ start_time' = 0
    /\ UNCHANGED <<now, use_mock, relay, op, call, first, before, notpump>>

\* the except block clearing is_running before its off-write
Recover_clearsfirst(o) ==
    /\ pc = "recover"
    /\ LET w == set_pump_state(FALSE, o) IN
       /\ relay' = w.relay
       /\ result' = IF w.raised THEN Raised("RuntimeError")
                    ELSE Returned(FALSE, "Error", 0, 0)
    /\ is_running' = FALSE
    /\ pc' = "idle"
    /\ duration' = 0
    /\ start_time' = 0
    /\ UNCHANGED <<now, use_mock, last_activation_time, total_activations,
                   op, call, first, ended_at, before, notpump>>

\* lines 161-171: except Exception: off-write, clear is_running, error result;
\* an off-write that raises here leaves activate as an exception
Recover(o) ==
    /\ pc = "recover"
    /\ LET w == set_pump_state(FALSE, o) IN
       /\ relay' = w.relay
       /\ IF w.raised
          THEN /\ result' = Raised("RuntimeError")
               /\ UNCHANGED is_running
          ELSE /\ result' = Returned(FALSE, "Error", 0, 0)
               /\ is_running' = FALSE
    /\ pc' = "idle"
    /\ duration' = 0
    /\ start_time' = 0
    /\ UNCHANGED <<now, use_mock, last_activation_time, total_activations,
                   op, call, first, ended_at, before, notpump>>

\* main.py:414-417: the signal handler raises SystemExit in the main thread;
\* `except Exception` does not catch it, so it leaves activate where it is
Interrupt ==
    /\ pc \in InActivate
    /\ pc' = "idle"
    /\ result' = Raised("SystemExit")
    /\ duration' = 0
    /\ start_time' = 0
    /\ UNCHANGED <<now, use_mock, is_running, last_activation_time,
                   total_activations, relay, op, call, first, ended_at,
                   before, notpump>>

\* emergency_stop() with line 180 inside the try block
emergency_stop_noclear(o) ==
    /\ pc = "idle"
    /\ LET w == set_pump_state(FALSE, o) IN
       /\ relay' = w.relay
       /\ result' = Returned(TRUE, IF w.raised THEN "Warning" ELSE "", 0, 0)
       /\ is_running' = IF w.raised THEN is_running ELSE FALSE
    /\ op' = "emergency_stop"
    /\ call' = NoCall
    /\ first' = "none"
    /\ before' = Snapshot
    /\ UNCHANGED <<now, use_mock, last_activation_time, total_activations,
                   pc, duration, start_time, ended_at, notpump>>

\* emergency_stop(): lines 173-180
emergency_stop(o) ==
    /\ pc = "idle"
    /\ LET w == set_pump_state(FALSE, o) IN
       /\ relay' = w.relay
       /\ result' = Returned(TRUE, IF w.raised THEN "Warning" ELSE "", 0, 0)
    /\ is_running' = FALSE
    /\ op' = "emergency_stop"
    /\ call' = NoCall
    /\ first' = "none"
    /\ before' = Snapshot
    /\ UNCHANGED <<now, use_mock, last_activation_time, total_activations,
                   pc, duration, start_time, ended_at, notpump>>

\* can_activate() called on its own (get_status, line 196)
QueryCanActivate_norunning ==
    /\ pc = "idle"
    /\ LET ca == can_activate_norunning IN
       result' = Returned(ca.ok, ca.reason, ca.remaining, 0)
    /\ op' = "can_activate"
    /\ call' = NoCall
    /\ first' = "none"
    /\ before' = Snapshot
    /\ UNCHANGED <<now, use_mock, is_running, last_activation_time,
                   total_activations, relay, pc, duration, start_time,
                   ended_at, notpump>>
QueryCanActivate ==
    /\ pc = "idle"
    /\ LET ca == can_activate IN
       result' = Returned(ca.ok, ca.reason, ca.remaining, 0)
    /\ op' = "can_activate"
    /\ call' = NoCall
    /\ first' = "none"
    /\ before' = Snapshot
    /\ UNCHANGED <<now, use_mock, is_running, last_activation_time,
                   total_activations, relay, pc, duration, start_time,
                   ended_at, notpump>>

\* time passes between two calls, up to the instant t; what the last call
\* returned is the caller's to keep, and is no longer tracked
Tick(t) ==
    /\ pc = "idle"
    /\ cpc = "idle"
    /\ t > now
    /\ now' = t
    /\ op' = "none"
    /\ call' = NoCall
    /\ result' = NoResult
    /\ first' = "none"
    /\ before' = NoBefore
    /\ UNCHANGED <<use_mock, is_running, last_activation_time,
                   total_activations, relay, pc, duration, start_time,
                   ended_at, notpump>>

(* ======================= APIClient ======================= *)

\* what one attempt (session.request, lines 55-60) can come to: a response
\* with a status code, or one of the exceptions of lines 71-76
Response(code) == [kind |-> "response", status |-> code]
Failure(exc) == [kind |-> exc, status |-> 0]
Outcomes == {Response(200), Response(201), Response(404), Response(500),
             Response(503), Failure("Timeout"), Failure("ConnectionError"),
             Failure("Exception")}
NoneResponse == [kind |-> "None", status |-> 0]

CNoResult == [status |-> "none", resp |-> NoneResponse]
CPending == [status |-> "pending", resp |-> NoneResponse]
CReturned(r) == [status |-> "returned", resp |-> r]
CRaised(exc) == [status |-> "raised", resp |-> Failure(exc)]

\* the health fields as the caller finds them when it makes a call
NoCBefore == [failures |-> 0, last_success |-> -1, at |-> -1]
CSnapshot == [failures |-> consecutive_failures,
              last_success |-> last_successful_request, at |-> now]

\* line 63 taking only the statuses below 400 for an answer
Terminal_below400(o) == o.kind = "response" /\ o.status < 400

\* line 63: the response ends the call
Terminal(o) == o.kind = "response" /\ o.status < 500

\* line 80: delay = API_RETRY_DELAY * (2 ** attempt), in ticks
Pow2(k) == IF k = 0 THEN 1 ELSE IF k = 1 THEN 2 ELSE IF k = 2 THEN 4 ELSE 8
delay_constant(k) == API_RETRY_DELAY * Res
delay(k) == API_RETRY_DELAY * Pow2(k) * Res

\* the method _init_ (lines 19-34) run on the object. The class defines no
\* __init__, so APIClient() does not run it: ClientInit has no attribute set
APIClient_init_ ==
    /\ cpc = "idle"
    /\ ~initialized
    /\ initialized' = TRUE
    /\ last_successful_request' = -1
    /\ consecutive_failures' = 0
    /\ connected' = "none"
    /\ UNCHANGED <<now, notclient, cpc, attempt, log, waits, cresult, calls,
                   cbefore>>

\* _make_request, line 48: reading self.base_url raises AttributeError on an
\* object whose attributes were never set; otherwise the loop is entered
MakeRequest ==
    /\ cpc = "idle"
    /\ pc = "idle"
    /\ calls < MaxCalls
    /\ calls' = calls + 1
    /\ log' = <<>>
    /\ waits' = <<>>
    /\ attempt' = 0
    /\ cbefore' = CSnapshot
    /\ connected' = "none"
    /\ IF initialized
       THEN cpc' = "attempt" /\ cresult' = CPending
       ELSE cpc' = "idle" /\ cresult' = CRaised("AttributeError")
    /\ UNCHANGED <<now, notclient, initialized, consecutive_failures,
                   last_successful_request>>

Attempt_countsattempts(o) ==
    /\ cpc = "attempt"
    /\ log' = Append(log, o)
    /\ IF Terminal(o)
       THEN /\ last_successful_request' = now
            /\ consecutive_failures' = 0
            /\ cresult' = CReturned(o)
            /\ cpc' = "idle"
       ELSE /\ consecutive_failures' = consecutive_failures + 1
            /\ UNCHANGED last_successful_request
            /\ IF attempt < API_MAX_RETRIES - 1
               THEN cpc' = "backoff" /\ UNCHANGED cresult
               ELSE cresult' = CReturned(NoneResponse) /\ cpc' = "idle"
    /\ UNCHANGED <<now, notclient, initialized, attempt, waits, calls, cbefore,
                   connected>>

Attempt_noreset(o) ==
    /\ cpc = "attempt"
    /\ log' = Append(log, o)
    /\ IF Terminal(o)
       THEN /\ last_successful_request' = now
            /\ UNCHANGED consecutive_failures
            /\ cresult' = CReturned(o)
            /\ cpc' = "idle"
       ELSE IF attempt < API_MAX_RETRIES - 1
            THEN /\ cpc' = "backoff"
                 /\ UNCHANGED <<last_successful_request, consecutive_failures,
                                cresult>>
            ELSE /\ consecutive_failures' = consecutive_failures + 1
                 /\ cresult' = CReturned(NoneResponse)
                 /\ cpc' = "idle"
                 /\ UNCHANGED last_successful_request
    /\ UNCHANGED <<now, notclient, initialized, attempt, waits, calls, cbefore,
                   connected>>

\* lines 51-76 and, after the last attempt, lines 84-87
Attempt(o) ==
    /\ cpc = "attempt"
    /\ log' = Append(log, o)
    /\ IF Terminal(o)
       THEN /\ last_successful_request' = now
            /\ consecutive_failures' = 0
            /\ cresult' = CReturned(o)
            /\ cpc' = "idle"
       ELSE IF attempt < API_MAX_RETRIES - 1
            THEN /\ cpc' = "backoff"
                 /\ UNCHANGED <<last_successful_request, consecutive_failures,
                                cresult>>
            ELSE /\ consecutive_failures' = consecutive_failures + 1
                 /\ cresult' = CReturned(NoneResponse)
                 /\ cpc' = "idle"
                 /\ UNCHANGED last_successful_request
    /\ UNCHANGED <<now, notclient, initialized, attempt, waits, calls, cbefore,
                   connected>>

\* lines 79-82: time.sleep(delay), then the next iteration of the loop
Backoff ==
    /\ cpc = "backoff"
    /\ now' = now + delay(attempt)
    /\ waits' = Append(waits, delay(attempt))
    /\ attempt' = attempt + 1
    /\ cpc' = "attempt"
    /\ UNCHANGED <<notclient, initialized, consecutive_failures,
                   last_successful_request, log, cresult, calls, cbefore,
                   connected>>

\* is_connected, lines 243-248: reading self.last_successful_request raises
\* AttributeError on an object whose attributes were never set
IsConnected ==
    /\ cpc = "idle"
    /\ pc = "idle"
    /\ connected' =
          IF ~initialized THEN "AttributeError"
          ELSE IF last_successful_request = -1 THEN "False"
          ELSE IF now - last_successful_request < CONNECTED_WINDOW * Res
               THEN "True" ELSE "False"
    /\ UNCHANGED <<now, notclient, initialized, consecutive_failures,
                   last_successful_request, cpc, attempt, log, waits,
                   cresult, calls, cbefore>>

\* time passes between two calls on the client; what the last call gave
\* back is the caller's to keep, and is no longer tracked
\* the lapses observed are those on either side of the is_connected window
Lapses == {CONNECTED_WINDOW * Res - 1, CONNECTED_WINDOW * Res}
Elapse(d) ==
    /\ cpc = "idle"
    /\ pc = "idle"
    /\ now < StartTime + CONNECTED_WINDOW * Res
    /\ now' = now + d
    /\ log' = <<>>
    /\ waits' = <<>>
    /\ cresult' = CNoResult
    /\ cbefore' = NoCBefore
    /\ connected' = "none"
    /\ UNCHANGED <<notclient, initialized, consecutive_failures,
                   last_successful_request, cpc, attempt, calls>>

\* the methods built on _make_request, and the status each takes for its
\* success (lines 108, 147, 173, 208, 231)
Wrappers == {"send_telemetry", "upload_image", "poll_commands",
             "acknowledge_command", "get_command_status"}
success_status_allcreated(w) == 201
success_status(w) ==
    IF w \in {"send_telemetry", "upload_image"} THEN 201 ELSE 200

\* what the JSON body of a response carries: a 'data' member or none, and in
\* it a list of commands or an empty one
Bodies == [data : {"data", "None"}, commands : {"commands", "[]"}]

\* what _make_request hands to the method: a response below 500, or None
CoreReturns == {Response(200), Response(201), Response(404), NoneResponse}

\* the value the method w returns on the response r with body b: the bool of
\* lines 108-118 and 208-217, the 'data' of lines 147-160 and 231-234, the
\* commands of lines 173-185
wrapper(w, r, b) ==
    LET success == r.kind = "response" /\ r.status = success_status(w) IN
    IF w \in {"send_telemetry", "acknowledge_command"}
    THEN IF success THEN "True" ELSE "False"
    ELSE IF w = "poll_commands"
         THEN IF success THEN b.commands ELSE "[]"
    ELSE IF success THEN b.data ELSE "None"

\* a method of the client called on what the retry core returned
NoBody == [data |-> "None", commands |-> "[]"]
NotWrapped == [method |-> "none", body |-> NoBody, called |-> FALSE,
               value |-> "None"]
Wrapping(w, b) == [method |-> w, body |-> b, called |-> FALSE,
                   value |-> "None"]
Wrap ==
    /\ wrapped.method \in Wrappers
    /\ ~wrapped.called
    /\ cresult.status = "returned"
    /\ wrapped' = [wrapped EXCEPT
                      !.called = TRUE,
                      !.value = wrapper(wrapped.method, cresult.resp,
                                        wrapped.body)]
    /\ UNCHANGED <<now, pvars, cvars, mvars, opc, running, ticks, issued,
                   command, acks, released, env, valid, current_time,
                   sensor_data, commands, sent, stamps>>

(* ======================= thresholds (main.py) ======================= *)

\* the eight keys of PlantMonitor.thresholds, lines 58-67
Fields == {"soil_min", "soil_max", "temp_min", "temp_max",
           "humidity_min", "humidity_max", "light_min", "light_max"}

\* a value out of the JSON payload: a number, or null (None)
Null == NotANumber

DefaultThresholds ==
    [soil_min |-> Num(DEFAULT_SOIL_MIN), soil_max |-> Num(DEFAULT_SOIL_MAX),
     temp_min |-> Num(DEFAULT_TEMP_MIN), temp_max |-> Num(DEFAULT_TEMP_MAX),
     humidity_min |-> Num(DEFAULT_HUMIDITY_MIN),
     humidity_max |-> Num(DEFAULT_HUMIDITY_MAX),
     light_min |-> Num(DEFAULT_LIGHT_MIN),
     light_max |-> Num(DEFAULT_LIGHT_MAX)]

\* plantType objects a result can carry: with a thresholds object that has
\* some of the fields; with one that has a null-valued field and a key the
\* device does not know, and no name; with a name and no thresholds object
\* or an empty one (line 101 takes both for false); or no plantType at all
NoThresholds == [k \in {} |-> Null]
NoPlantType == [present |-> FALSE, named |-> FALSE, name |-> "",
                thresholds |-> NoThresholds]
PlantType(n, t) == [present |-> TRUE, named |-> TRUE, name |-> n,
                    thresholds |-> t]
Unnamed(t) == [present |-> TRUE, named |-> FALSE, name |-> "",
               thresholds |-> t]
PlantTypes ==
    { PlantType("Fern", [soil_min |-> Num(45), humidity_max |-> Num(90)]),
      Unnamed([soil_min |-> Null, temp_max |-> Num(40), ph_min |-> Num(6)]),
      PlantType("Moss", NoThresholds),
      NoPlantType }

\* the 'confidence' of a detection, in hundredths: a number, or no key
NoConfidence == [given |-> FALSE, c |-> Null]
Confidence(c) == [given |-> TRUE, c |-> c]
Confidences == {NoConfidence, Confidence(Num(60)), Confidence(Num(90))}

Detections == [confidence : Confidences, plantType : PlantTypes]
DetectionLists == UNION {[1..n -> Detections] : n \in 0..MaxDetections}

\* plant_data: with a 'detections' list, or without the key
NoPayload == [listed |-> FALSE, detections |-> <<>>, merged |-> FALSE]
Payloads ==
    {[listed |-> FALSE, detections |-> <<>>, merged |-> TRUE]}
    \cup {[listed |-> TRUE, detections |-> ds, merged |-> TRUE] :
             ds \in DetectionLists}

\* line 98: key = d.get('confidence', 0)
key(d) == IF d.confidence.given THEN d.confidence.c ELSE Num(0)

\* line 98: max(detections, key=...) keeps the first item and replaces it by
\* a later one only when that one's key is greater
RECURSIVE max_last(_, _, _)
max_last(ds, i, best) ==
    IF i > Len(ds) THEN best
    ELSE IF key(ds[i]).v >= key(ds[best]).v THEN max_last(ds, i + 1, i)
         ELSE max_last(ds, i + 1, best)
RECURSIVE max(_, _, _)
max(ds, i, best) ==
    IF i > Len(ds) THEN best
    ELSE IF key(ds[i]).v > key(ds[best]).v THEN max(ds, i + 1, i)
         ELSE max(ds, i + 1, best)

\* line 103: dict.update
update_keepnull(t, u) ==
    [k \in DOMAIN t \cup DOMAIN u |->
        IF k \in DOMAIN u /\ (u[k].num \/ k \notin DOMAIN t)
        THEN u[k] ELSE t[k]]
update(t, u) ==
    [k \in DOMAIN t \cup DOMAIN u |-> IF k \in DOMAIN u THEN u[k] ELSE t[k]]

\* line 105: plant_type.get('name', 'Unknown')
PlantName(pt) == IF pt.named THEN pt.name ELSE "Unknown"

\* the body with the plant named whenever the dominant detection has a
\* plantType, thresholds or not
merge_namesalways(p) ==
    LET detections == IF p.listed THEN p.detections ELSE <<>>
    IN  IF detections = <<>>
        THEN UNCHANGED <<thresholds, identified_plant>>
        ELSE LET dominant == detections[max(detections, 2, 1)]
                 plant_type == dominant.plantType
             IN  IF plant_type.present
                 THEN /\ thresholds' =
                            update(thresholds, plant_type.thresholds)
                      /\ identified_plant' = PlantName(plant_type)
                 ELSE UNCHANGED <<thresholds, identified_plant>>

\* the body of update_thresholds_from_api, lines 90-117
merge(p) ==
    LET detections == IF p.listed THEN p.detections ELSE <<>>
    IN  IF detections = <<>>
        THEN UNCHANGED <<thresholds, identified_plant>>
        ELSE LET dominant == detections[max(detections, 2, 1)]
                 plant_type == dominant.plantType
             IN  IF plant_type.present
                    /\ plant_type.thresholds # NoThresholds
                 THEN /\ thresholds' =
                            update(thresholds, plant_type.thresholds)
                      /\ identified_plant' = PlantName(plant_type)
                 ELSE UNCHANGED <<thresholds, identified_plant>>

\* update_thresholds_from_api called on its own with the payload p
update_thresholds_from_api(p) ==
    /\ merges < MaxMerges
    /\ ~payload.merged
    /\ merges' = merges + 1
    /\ payload' = p
    /\ tbefore' = thresholds
    /\ merge(p)
    /\ UNCHANGED notmerge

\* the call has returned and its caller lets go of plant_data
ForgetPayload ==
    /\ payload.merged
    /\ payload' = NoPayload
    /\ tbefore' = thresholds
    /\ UNCHANGED <<thresholds, identified_plant, merges, notmerge>>

MergeInit ==
    /\ thresholds = DefaultThresholds
    /\ identified_plant = "None"
    /\ payload = NoPayload
    /\ tbefore = DefaultThresholds
    /\ merges = 0

(* ======================= PlantMonitor (main.py) ======================= *)

\* a reading as read_all returns it (sensors.py): each field a number or None
Reading(s, t, h, l) == [taken |-> TRUE, soil_pct |-> s, temperature_c |-> t,
                        humidity_pct |-> h, lux |-> l]
NoReading == [taken |-> FALSE, soil_pct |-> Null, temperature_c |-> Null,
              humidity_pct |-> Null, lux |-> Null]

\* the readings the sensors give: dry soil; moist soil; dry soil and a
\* temperature above the ceiling
Readings ==
    { Reading(Num(20), Num(25), Num(50), Num(500)),
      Reading(Num(50), Num(25), Num(50), Num(500)),
      Reading(Num(20), Num(55), Num(50), Num(500)) }

\* SensorReader.is_reading_valid (sensors.py) with >= for >
is_reading_valid_atceiling(r) ==
    IF ~ENABLE_SAFETY_CHECKS THEN TRUE
    ELSE IF ~(r.soil_pct.num \/ r.temperature_c.num \/ r.humidity_pct.num
              \/ r.lux.num)
         THEN FALSE
    ELSE IF r.temperature_c.num /\ r.temperature_c.v >= SAFETY_MAX_TEMP
         THEN FALSE
    ELSE IF r.humidity_pct.num /\ r.humidity_pct.v >= SAFETY_MAX_HUMIDITY
         THEN FALSE
    ELSE TRUE

\* SensorReader.is_reading_valid (sensors.py)
is_reading_valid(r) ==
    IF ~ENABLE_SAFETY_CHECKS THEN TRUE
    ELSE IF ~(r.soil_pct.num \/ r.temperature_c.num \/ r.humidity_pct.num
              \/ r.lux.num)
         THEN FALSE
    ELSE IF r.temperature_c.num /\ r.temperature_c.v > SAFETY_MAX_TEMP
         THEN FALSE
    ELSE IF r.humidity_pct.num /\ r.humidity_pct.v > SAFETY_MAX_HUMIDITY
         THEN FALSE
    ELSE TRUE

\* what a call of is_reading_valid returned
NotValidated == [called |-> FALSE, value |-> FALSE]
Validity(b) == [called |-> TRUE, value |-> b]

\* the readings read_all can build (sensors.py lines 190-196): each field is
\* None or a number, here below, at and above the ceilings
Margin == 1
Around(c) == {Null} \cup {Num(v) : v \in (c - Margin)..(c + Margin)}
ReadingSpace ==
    { Reading(s, t, h, l) : s \in {Null, Num(20)},
                            t \in Around(SAFETY_MAX_TEMP),
                            h \in Around(SAFETY_MAX_HUMIDITY),
                            l \in {Null, Num(500)} }

\* is_reading_valid(reading) is called on the reading at hand
Validate ==
    /\ ~valid.called
    /\ valid' = Validity(is_reading_valid(sensor_data))
    /\ UNCHANGED <<now, pvars, cvars, mvars, opc, running, ticks, issued,
                   command, acks, released, env, wrapped, current_time,
                   sensor_data, commands, sent, stamps>>

\* the faults one run of the main loop meets: a backend that may be out of
\* reach, or a GPIO whose writes may fail
MonitorEnvs == {"backend", "gpio"}

\* what the backend answers to the device in a run of the main loop: each
\* wrapper sees its success status, another status below 500, and a failure
MonitorOutcomes == {Response(200), Response(201), Response(503)}

\* the backend may be out of reach when the loop starts: a call is then
\* answered at its first attempt or not at all; once the backend has given a
\* response below 500 it keeps answering
BackendGives(o) ==
    IF Terminal(o) THEN log = <<>>
    ELSE env = "backend" /\ last_successful_request = -1

\* the GPIO writes fail only in a run with a faulty GPIO
WriteGives(o) == env = "gpio" \/ o = "ok"

\* the 'data' of an image-upload result: none, or a payload
UploadData == {NoPayload}
              \cup {p \in Payloads : p.listed /\ Len(p.detections) <= 1}

\* the types of polled commands: water, and a type the device does not know
CommandTypes == {"water", "reboot"}
\* the backend hands out each pending command once
CommandLists == UNION {[1..n -> CommandTypes] : n \in 0..MaxCommands}

\* the 'payload' of a water command: an object with a duration; an object
\* without one (or no 'payload' key: line 269 then gives {}); an object whose
\* duration is null or no number; or null
CommandPayloads ==
    { [null |-> FALSE, has_duration |-> TRUE, duration |-> Num(3 * Res)],
      [null |-> FALSE, has_duration |-> FALSE, duration |-> Null],
      [null |-> FALSE, has_duration |-> TRUE, duration |-> Null],
      [null |-> TRUE, has_duration |-> FALSE, duration |-> Null] }
Command(t, pl) == [type |-> t, null |-> pl.null,
                   has_duration |-> pl.has_duration, duration |-> pl.duration]
NoCommand == [type |-> "none", null |-> FALSE, has_duration |-> FALSE,
              duration |-> Null]

\* line 275: payload.get('duration', 5)
Duration(c) ==
    IF c.has_duration THEN c.duration
    ELSE Num(DEFAULT_COMMAND_DURATION * Res)

\* a method of the client is called: its first read of an attribute raises
\* AttributeError on an object whose attributes were never set, and run
\* (line 390) goes to shutdown; otherwise _make_request enters its loop and
\* the main thread is at `next` when the method returns
request ==
    /\ cpc' = "attempt"
    /\ cresult' = CPending
    /\ log' = <<>>
    /\ waits' = <<>>
    /\ attempt' = 0
    /\ cbefore' = [failures |-> consecutive_failures,
                   last_success |-> last_successful_request, at |-> now']
    /\ connected' = "none"
    /\ UNCHANGED <<initialized, consecutive_failures, last_successful_request,
                   calls>>
client_call_escapes(next) ==
    IF initialized
    THEN request /\ opc' = next
    ELSE UNCHANGED cvars /\ opc' = "stopped"
client_call(next) ==
    IF initialized
    THEN request /\ opc' = next
    ELSE UNCHANGED cvars /\ opc' = "shutdown"

\* the client method has returned, and what it returned has been used
returned == cpc = "idle" /\ cresult.status = "returned"
forget_response ==
    /\ cresult' = CNoResult
    /\ log' = <<>>
    /\ waits' = <<>>
    /\ attempt' = 0
    /\ cbefore' = NoCBefore
    /\ UNCHANGED <<initialized, consecutive_failures, last_successful_request,
                   cpc, calls, connected>>

\* pump.activate is called (pump.py line 120); the main thread goes on when
\* activate has returned or raised
activate(c) ==
    /\ op' = "activate"
    /\ call' = c
    /\ first' = "none"
    /\ before' = Snapshot
    /\ IF c.req.num
       THEN /\ duration' = clamp(c.req.v)
            /\ pc' = "check"
            /\ result' = Pending
       ELSE /\ result' = Raised("TypeError")
            /\ UNCHANGED <<duration, pc>>
    /\ UNCHANGED <<use_mock, is_running, last_activation_time,
                   total_activations, relay, start_time, ended_at>>
activated == pc = "idle" /\ result.status \in {"returned", "raised"}
forget_result ==
    /\ op' = "none"
    /\ call' = NoCall
    /\ result' = NoResult
    /\ first' = "none"
    /\ before' = NoBefore
    /\ UNCHANGED <<use_mock, is_running, last_activation_time,
                   total_activations, relay, pc, duration, start_time,
                   ended_at>>

\* _init_ run by hand on monitor.api_client before run() is called
InitClient == opc = "new" /\ APIClient_init_

\* run, lines 361-370
Run ==
    /\ opc = "new"
    /\ opc' = "telemetry"
    /\ running' = TRUE
    /\ ticks' = 1
    /\ last_status_display' = 0
    /\ UNCHANGED <<now, pvars, cvars, mvars, released, env, wrapped, valid,
                   issued, command, acks, current_time, sensor_data, commands,
                   sent, last_telemetry_time, last_image_time,
                   last_command_poll_time, last_auto_water_check>>

\* process_telemetry, lines 159-186: up to the call of send_telemetry
ProcessTelemetry(r) ==
    /\ opc = "telemetry"
    /\ UNCHANGED now
    /\ current_time' = now
    /\ IF now - last_telemetry_time < TELEMETRY_INTERVAL * Res
       THEN opc' = "image" /\ UNCHANGED <<sensor_data, sent, cvars>>
       ELSE /\ sensor_data' = r
            /\ IF ~is_reading_valid(r)
               THEN opc' = "image" /\ UNCHANGED <<sent, cvars>>
               ELSE sent' = r /\ client_call("t_sent")
    /\ UNCHANGED <<pvars, mvars, running, released, env, wrapped, valid, acks,
                   issued, command, ticks, commands, stamps>>

\* process_telemetry, lines 187-197, and check_and_water_if_needed, lines
\* 129-141: up to the call of pump.activate
TelemetrySent ==
    /\ opc = "t_sent"
    /\ returned
    /\ forget_response
    /\ last_telemetry_time' = current_time
    /\ sent' = NoReading
    /\ IF current_time - last_auto_water_check
             < AUTO_WATER_CHECK_INTERVAL * Res
       THEN opc' = "image" /\ UNCHANGED <<last_auto_water_check, pvars>>
       ELSE IF ~ENABLE_AUTO_WATERING \/ ~sensor_data.soil_pct.num
            THEN /\ last_auto_water_check' = current_time
                 /\ opc' = "image"
                 /\ UNCHANGED pvars
       ELSE IF ~thresholds["soil_min"].num
            THEN /\ opc' = "shutdown"
                 /\ UNCHANGED <<last_auto_water_check, pvars>>
       ELSE IF sensor_data.soil_pct.v < thresholds["soil_min"].v
            THEN /\ activate([reason |-> "auto",
                              req |-> Num(AUTO_WATER_DURATION * Res)])
                 /\ opc' = "t_watering"
                 /\ UNCHANGED last_auto_water_check
       ELSE /\ last_auto_water_check' = current_time
            /\ opc' = "image"
            /\ UNCHANGED pvars
    /\ UNCHANGED <<now, mvars, running, released, env, wrapped, valid, acks,
                   issued, command, ticks, current_time, sensor_data,
                   commands, last_image_time, last_command_poll_time,
                   last_status_display>>

\* check_and_water_if_needed, lines 143-155, and process_telemetry, line 197:
\* after a successful activation a new reading is taken and sent as it is
TelemetryWatered(r) ==
    /\ opc = "t_watering"
    /\ activated
    /\ forget_result
    /\ IF result.status = "raised"
       THEN /\ opc' = "shutdown"
            /\ UNCHANGED <<now, sent, cvars, last_auto_water_check>>
       ELSE IF result.success
            THEN /\ now' = now + SETTLE_SLEEP * Res
                 /\ sent' = r
                 /\ client_call("t_follow")
                 /\ UNCHANGED last_auto_water_check
       ELSE /\ last_auto_water_check' = current_time
            /\ opc' = "image"
            /\ UNCHANGED <<now, sent, cvars>>
    /\ UNCHANGED <<mvars, running, released, env, wrapped, valid, acks,
                   issued, command, ticks, current_time, sensor_data,
                   commands, last_telemetry_time, last_image_time,
                   last_command_poll_time, last_status_display>>

\* check_and_water_if_needed, line 151, and process_telemetry, line 197
TelemetryFollowed ==
    /\ opc = "t_follow"
    /\ returned
    /\ forget_response
    /\ last_auto_water_check' = current_time
    /\ sent' = NoReading
    /\ opc' = "image"
    /\ UNCHANGED <<now, pvars, mvars, running, released, env, wrapped, valid,
                   acks, issued, command, ticks, current_time, sensor_data,
                   commands, last_telemetry_time, last_image_time,
                   last_command_poll_time, last_status_display>>

\* process_image_capture, lines 201-218: up to the call of upload_image
ProcessImage(captured) ==
    /\ opc = "image"
    /\ UNCHANGED now
    /\ current_time' = now
    /\ sensor_data' = NoReading
    /\ IF now - last_image_time < IMAGE_CAPTURE_INTERVAL * Res \/ ~captured
       THEN opc' = "commands" /\ UNCHANGED cvars
       ELSE client_call("i_uploaded")
    /\ UNCHANGED <<pvars, mvars, running, released, env, wrapped, valid, acks,
                   issued, command, ticks, commands, sent, stamps>>

\* process_image_capture, lines 220-237: upload_image gives the 'data' of a
\* 201 response, else None; a result that is not empty is merged
ImageUploaded_anystatus(p) ==
    /\ opc = "i_uploaded"
    /\ returned
    /\ forget_response
    /\ IF p.merged
       THEN merge(p)
       ELSE UNCHANGED <<thresholds, identified_plant>>
    /\ last_image_time' = current_time
    /\ opc' = "commands"
    /\ UNCHANGED <<now, pvars, payload, tbefore, merges, running, released,
                   env, wrapped, valid, acks, issued, command, ticks,
                   current_time, sensor_data, commands, sent,
                   last_telemetry_time, last_command_poll_time,
                   last_auto_water_check, last_status_display>>
ImageUploaded(p) ==
    /\ opc = "i_uploaded"
    /\ returned
    /\ forget_response
    /\ IF cresult.resp = Response(201) /\ p.merged
       THEN merge(p)
       ELSE UNCHANGED <<thresholds, identified_plant>>
    /\ last_image_time' = current_time
    /\ opc' = "commands"
    /\ UNCHANGED <<now, pvars, payload, tbefore, merges, running, released,
                   env, wrapped, valid, acks, issued, command, ticks,
                   current_time, sensor_data, commands, sent,
                   last_telemetry_time, last_command_poll_time,
                   last_auto_water_check, last_status_display>>

\* process_commands, lines 241-247: up to the call of poll_commands
ProcessCommands ==
    /\ opc = "commands"
    /\ UNCHANGED now
    /\ current_time' = now
    /\ IF now - last_command_poll_time < COMMAND_POLL_INTERVAL * Res
       THEN opc' = "status" /\ UNCHANGED cvars
       ELSE client_call("c_polled")
    /\ UNCHANGED <<pvars, mvars, running, released, env, wrapped, valid, acks,
                   issued, command, ticks, sensor_data, commands, sent,
                   stamps>>

\* process_commands, lines 249-253: poll_commands gives the commands of a
\* 200 response, else an empty list
CommandsPolled(cs) ==
    /\ opc = "c_polled"
    /\ returned
    /\ forget_response
    /\ Len(cs) <= MaxCommands - issued
    /\ LET got == IF cresult.resp = Response(200) THEN cs ELSE <<>> IN
       /\ commands' = got
       /\ issued' = issued + Len(got)
       /\ IF got = <<>>
          THEN last_command_poll_time' = current_time /\ opc' = "status"
          ELSE UNCHANGED last_command_poll_time /\ opc' = "c_next"
    /\ UNCHANGED <<now, pvars, mvars, running, released, env, wrapped, valid,
                   acks, command, ticks, current_time, sensor_data, sent,
                   last_telemetry_time, last_image_time,
                   last_auto_water_check, last_status_display>>

\* acknowledge_command(command_id, status, result), api_client.py line 187:
\* the status and the error detail of the result
Ack(status, error) == [status |-> status, error |-> error]

\* execute_command, lines 273-278 and 307-313: the first acknowledgement of
\* a command of type t
first_ack_started(t) == Ack("started", "")
first_ack(t) ==
    IF t = "water"
    THEN Ack("started", "")
    ELSE Ack("failed", "Unknown command type")

\* execute_command, lines 284-304: the acknowledgement that follows the
\* return of pump.activate
final_ack_noreason(res) ==
    IF res.success
    THEN Ack("completed", "")
    ELSE Ack("failed", "")
final_ack(res) ==
    IF res.success
    THEN Ack("completed", "")
    ELSE Ack("failed", res.reason)

\* process_commands, lines 255-258, and execute_command, lines 267-278 and
\* 307-313: the next command of the batch, up to its first acknowledgement;
\* the payload of the command is first read here (line 269) and only a water
\* command uses it: payload.get of line 275 raises AttributeError on a null
\* payload, and run (line 390) goes to shutdown
ExecuteCommand(pl) ==
    /\ opc = "c_next"
    /\ UNCHANGED now
    /\ IF commands = <<>>
       THEN /\ last_command_poll_time' = current_time
            /\ opc' = "status"
            /\ UNCHANGED <<command, acks, cvars>>
       ELSE /\ UNCHANGED last_command_poll_time
            /\ IF Head(commands) = "water"
               THEN /\ command' = Command("water", pl)
                    /\ IF pl.null
                       THEN /\ acks' = <<>>
                            /\ opc' = "shutdown"
                            /\ UNCHANGED cvars
                       ELSE /\ acks' = <<first_ack("water")>>
                            /\ client_call("c_started")
               ELSE /\ command' = Command(Head(commands), NoCommand)
                    /\ acks' = <<first_ack(Head(commands))>>
                    /\ client_call("c_acked")
    /\ UNCHANGED <<pvars, mvars, running, released, env, wrapped, valid,
                   issued, ticks, current_time, sensor_data, commands, sent,
                   last_telemetry_time, last_image_time,
                   last_auto_water_check, last_status_display>>

\* execute_command, line 281
CommandStarted ==
    /\ opc = "c_started"
    /\ returned
    /\ forget_response
    /\ activate([reason |-> "command", req |-> Duration(command)])
    /\ opc' = "c_activating"
    /\ UNCHANGED <<now, mvars, running, released, env, wrapped, valid, acks,
                   issued, command, ticks, current_time, sensor_data,
                   commands, sent, stamps>>

\* execute_command, lines 284-292 and 299-304: the final acknowledgement
CommandActivated ==
    /\ opc = "c_activating"
    /\ activated
    /\ forget_result
    /\ UNCHANGED now
    /\ IF result.status = "raised"
       THEN opc' = "shutdown" /\ UNCHANGED <<acks, cvars>>
       ELSE /\ acks' = Append(acks, final_ack(result))
            /\ IF result.success
               THEN client_call("c_completed")
               ELSE client_call("c_acked")
    /\ UNCHANGED <<mvars, running, released, env, wrapped, valid, issued,
                   command, ticks, current_time, sensor_data, commands, sent,
                   stamps>>

\* execute_command, lines 296-298: a new reading is taken and sent as it is
CommandCompleted(r) ==
    /\ opc = "c_completed"
    /\ returned
    /\ now' = now + SETTLE_SLEEP * Res
    /\ sent' = r
    /\ request
    /\ opc' = "c_follow"
    /\ UNCHANGED <<pvars, mvars, running, released, env, wrapped, valid, acks,
                   issued, command, ticks, current_time, sensor_data,
                   commands, stamps>>

\* execute_command returns, and the loop of line 255 goes on
CommandDone_dropsbatch ==
    /\ opc \in {"c_acked", "c_follow"}
    /\ returned
    /\ forget_response
    /\ commands' = <<>>
    /\ command' = NoCommand
    /\ acks' = <<>>
    /\ sent' = NoReading
    /\ opc' = "c_next"
    /\ UNCHANGED <<now, pvars, mvars, running, released, env, wrapped, valid,
                   issued, ticks, current_time, sensor_data, stamps>>
CommandDone ==
    /\ opc \in {"c_acked", "c_follow"}
    /\ returned
    /\ forget_response
    /\ commands' = Tail(commands)
    /\ command' = NoCommand
    /\ acks' = <<>>
    /\ sent' = NoReading
    /\ opc' = "c_next"
    /\ UNCHANGED <<now, pvars, mvars, running, released, env, wrapped, valid,
                   issued, ticks, current_time, sensor_data, stamps>>

\* run, lines 381-383, and display_status: get_health reads the attributes
\* of the client
Status ==
    /\ opc = "status"
    /\ IF now - last_status_display < STATUS_INTERVAL * Res
       THEN opc' = "sleep" /\ UNCHANGED last_status_display
       ELSE IF initialized
            THEN opc' = "sleep" /\ last_status_display' = now
            ELSE opc' = "shutdown" /\ UNCHANGED last_status_display
    /\ UNCHANGED <<now, pvars, cvars, mvars, running, released, env, wrapped,
                   valid, acks, issued, command, ticks, current_time,
                   sensor_data, commands, sent, last_telemetry_time,
                   last_image_time, last_command_poll_time,
                   last_auto_water_check>>

\* run, line 386, and the next iteration of the loop
Sleep ==
    /\ opc = "sleep"
    /\ ticks < MaxTicks
    /\ ticks' = ticks + 1
    /\ now' = now + LOOP_SLEEP * Res
    /\ opc' = "telemetry"
    /\ UNCHANGED <<pvars, cvars, mvars, running, released, env, wrapped,
                   valid, acks, issued, command, current_time, sensor_data,
                   commands, sent, stamps>>

\* the positions of the main thread inside the loop of run
InLoop == {"telemetry", "t_sent", "t_watering", "t_follow", "image",
           "i_uploaded", "commands", "c_polled", "c_next", "c_started",
           "c_activating", "c_completed", "c_follow", "c_acked", "status",
           "sleep"}

\* signal_handler, lines 414-417, installed for SIGINT and SIGTERM at lines
\* 422-423: sys.exit(0) raises SystemExit in the main thread, wherever it
\* is inside the loop. No `except Exception` catches it (pump.py line 160,
\* main.py line 390): the frames of activate, of the client call and of the
\* task are left as they are and their locals are gone, and the finally
\* clause of run, line 394, calls shutdown
Signal ==
    /\ running
    /\ opc \in InLoop
    /\ opc' = "shutdown"
    /\ pc' = "idle"
    /\ op' = IF pc \in InActivate THEN op ELSE "none"
    /\ call' = IF pc \in InActivate THEN call ELSE NoCall
    /\ result' = IF pc \in InActivate THEN Raised("SystemExit") ELSE NoResult
    /\ first' = "none"
    /\ before' = NoBefore
    /\ duration' = 0
    /\ start_time' = 0
    /\ cpc' = "idle"
    /\ cresult' = CNoResult
    /\ log' = <<>>
    /\ waits' = <<>>
    /\ attempt' = 0
    /\ cbefore' = NoCBefore
    /\ connected' = "none"
    /\ command' = NoCommand
    /\ acks' = <<>>
    /\ current_time' = 0
    /\ sensor_data' = NoReading
    /\ commands' = <<>>
    /\ sent' = NoReading
    /\ UNCHANGED <<now, use_mock, is_running, last_activation_time,
                   total_activations, relay, ended_at, initialized,
                   consecutive_failures, last_successful_request, calls,
                   mvars, running, released, env, wrapped, valid, ticks,
                   issued, stamps>>

\* pump.emergency_stop(), pump.py lines 173-180, called by shutdown
pump_emergency_stop_noclear(o) ==
    /\ LET w == set_pump_state(FALSE, o) IN
       /\ relay' = w.relay
       /\ result' = Returned(TRUE, IF w.raised THEN "Warning" ELSE "", 0, 0)
    /\ op' = "emergency_stop"
    /\ call' = NoCall
    /\ first' = "none"
    /\ before' = Snapshot
    /\ UNCHANGED <<use_mock, is_running, last_activation_time,
                   total_activations, pc, duration, start_time, ended_at>>
pump_emergency_stop(o) ==
    /\ LET w == set_pump_state(FALSE, o) IN
       /\ relay' = w.relay
       /\ result' = Returned(TRUE, IF w.raised THEN "Warning" ELSE "", 0, 0)
    /\ is_running' = FALSE
    /\ op' = "emergency_stop"
    /\ call' = NoCall
    /\ first' = "none"
    /\ before' = Snapshot
    /\ UNCHANGED <<use_mock, last_activation_time, total_activations, pc,
                   duration, start_time, ended_at>>

\* pump.cleanup(), pump.py lines 199-212: the relay is written off once
\* more, an error of the write is swallowed
pump_cleanup(o) ==
    /\ LET w == set_pump_state(FALSE, o) IN
       /\ relay' = w.relay
       /\ result' = Returned(TRUE, IF w.raised THEN "Warning" ELSE "", 0, 0)
    /\ op' = "cleanup"
    /\ call' = NoCall
    /\ first' = "none"
    /\ before' = Snapshot
    /\ UNCHANGED <<use_mock, is_running, last_activation_time,
                   total_activations, pc, duration, start_time, ended_at>>

\* run, lines 394-395, and shutdown, lines 399-403: the flag is cleared and
\* pump.emergency_stop is called
Shutdown_cleansfirst(o) ==
    /\ opc = "shutdown"
    /\ opc' = "sd_camera"
    /\ running' = FALSE
    /\ released' = <<"sensors">>
    /\ pump_emergency_stop(o)
    /\ UNCHANGED <<now, cvars, mvars, ticks, issued, command, acks, env,
                   wrapped, valid, current_time, sensor_data, commands, sent,
                   stamps>>
Shutdown(o) ==
    /\ opc = "shutdown"
    /\ opc' = "sd_sensors"
    /\ running' = FALSE
    /\ pump_emergency_stop(o)
    /\ UNCHANGED <<now, cvars, mvars, ticks, issued, command, acks, released,
                   env, wrapped, valid, current_time, sensor_data, commands,
                   sent, stamps>>

\* shutdown, line 406: sensor_reader.cleanup()
CleanupSensors ==
    /\ opc = "sd_sensors"
    /\ opc' = "sd_camera"
    /\ released' = Append(released, "sensors")
    /\ UNCHANGED <<now, env, wrapped, valid, pvars, cvars, mvars, running,
                   ticks, issued, command, acks, current_time, sensor_data,
                   commands, sent, stamps>>

\* shutdown, line 407: camera.cleanup()
CleanupCamera ==
    /\ opc = "sd_camera"
    /\ opc' = "sd_pump"
    /\ released' = Append(released, "camera")
    /\ UNCHANGED <<now, env, wrapped, valid, pvars, cvars, mvars, running,
                   ticks, issued, command, acks, current_time, sensor_data,
                   commands, sent, stamps>>

\* shutdown, lines 408-411: pump.cleanup()
CleanupPump(o) ==
    /\ opc = "sd_pump"
    /\ opc' = "stopped"
    /\ released' = Append(released, "pump")
    /\ pump_cleanup(o)
    /\ UNCHANGED <<now, env, wrapped, valid, cvars, mvars, running, ticks,
                   issued, command, acks, current_time, sensor_data, commands,
                   sent, stamps>>

MonitorInit ==
    /\ opc = "new"
    /\ running = FALSE
    /\ ticks = 0
    /\ issued = 0
    /\ command = NoCommand
    /\ acks = <<>>
    /\ released = <<>>
    /\ valid = NotValidated
    /\ wrapped = NotWrapped
    /\ current_time = 0
    /\ sensor_data = NoReading
    /\ commands = <<>>
    /\ sent = NoReading
    /\ last_telemetry_time = 0
    /\ last_image_time = 0
    /\ last_command_poll_time = 0
    /\ last_auto_water_check = 0
    /\ last_status_display = 0

PumpInit ==
    /\ use_mock \in BOOLEAN
    /\ is_running = FALSE
    /\ last_activation_time = 0
    /\ total_activations = 0
    /\ relay = FALSE
    /\ pc = "idle"
    /\ op = "none"
    /\ call = NoCall
    /\ duration = 0
    /\ start_time = 0
    /\ result = NoResult
    /\ first = "none"
    /\ ended_at = -1
    /\ before = NoBefore

ClientInit ==
    /\ initialized = FALSE
    /\ consecutive_failures = 0
    /\ last_successful_request = -1
    /\ cpc = "idle"
    /\ attempt = 0
    /\ log = <<>>
    /\ waits = <<>>
    /\ cresult = CNoResult
    /\ calls = 0
    /\ cbefore = NoCBefore
    /\ connected = "none"

Start == now = StartTime /\ PumpInit /\ ClientInit /\ MergeInit /\ MonitorInit

\* the components on their own meet every fault their actions allow
Init == Start /\ env = "any"

\* a faulty GPIO is a real one
InitMonitor ==
    /\ Start
    /\ env \in MonitorEnvs
    /\ env = "gpio" => ~use_mock

Next ==
    \/ \E c \in CallSites : Call(c)
    \/ Check
    \/ \E o \in WriteOutcomes : SwitchOn(o)
    \/ Wait
    \/ \E o \in WriteOutcomes : SwitchOff(o)
    \/ Track
    \/ \E o \in WriteOutcomes : Recover(o)
    \/ Interrupt
    \/ \E o \in WriteOutcomes : emergency_stop(o)
    \/ QueryCanActivate
    \/ \E t \in Instants : Tick(t)

Spec == Init /\ [][Next]_vars

\* the controller on a machine whose clock may not have been set
InitClock ==
    /\ now \in EarlyClocks \cup {StartTime}
    /\ PumpInit /\ ClientInit /\ MergeInit /\ MonitorInit
    /\ env = "any"

SpecClock == InitClock /\ [][Next]_vars

NextClient ==
    \/ APIClient_init_
    \/ MakeRequest
    \/ \E o \in Outcomes : Attempt(o)
    \/ Backoff
    \/ IsConnected
    \/ \E d \in Lapses : Elapse(d)

SpecClient == Init /\ [][NextClient]_vars

NextMerge ==
    \/ \E p \in Payloads : update_thresholds_from_api(p)
    \/ ForgetPayload

SpecMerge == Init /\ [][NextMerge]_vars

NextMonitor ==
    \/ InitClient
    \/ Run
    \/ \E r \in Readings : ProcessTelemetry(r)
    \/ TelemetrySent
    \/ \E r \in Readings : TelemetryWatered(r)
    \/ TelemetryFollowed
    \/ \E captured \in BOOLEAN : ProcessImage(captured)
    \/ \E p \in UploadData : ImageUploaded(p)
    \/ ProcessCommands
    \/ \E cs \in CommandLists : CommandsPolled(cs)
    \/ \E pl \in CommandPayloads : ExecuteCommand(pl)
    \/ CommandStarted
    \/ CommandActivated
    \/ \E r \in Readings : CommandCompleted(r)
    \/ CommandDone
    \/ Status
    \/ Sleep
    \/ \E o \in WriteOutcomes : WriteGives(o) /\ Shutdown(o)
    \/ CleanupSensors
    \/ CleanupCamera
    \/ \E o \in WriteOutcomes : WriteGives(o) /\ CleanupPump(o)
    \/ \E o \in MonitorOutcomes : BackendGives(o) /\ Attempt(o)
    \/ Backoff
    \/ Check
    \/ \E o \in WriteOutcomes : WriteGives(o) /\ SwitchOn(o)
    \/ Wait
    \/ \E o \in WriteOutcomes : WriteGives(o) /\ SwitchOff(o)
    \/ Track
    \/ \E o \in WriteOutcomes : WriteGives(o) /\ Recover(o)

SpecMonitor == InitMonitor /\ [][NextMonitor]_vars

\* is_reading_valid on the readings read_all can build
InitReading ==
    /\ now = StartTime
    /\ PumpInit
    /\ ClientInit
    /\ MergeInit
    /\ opc = "new"
    /\ running = FALSE
    /\ ticks = 0
    /\ issued = 0
    /\ command = NoCommand
    /\ acks = <<>>
    /\ released = <<>>
    /\ env = "any"
    /\ valid = NotValidated
    /\ wrapped = NotWrapped
    /\ current_time = 0
    /\ sensor_data \in ReadingSpace
    /\ commands = <<>>
    /\ sent = NoReading
    /\ last_telemetry_time = 0
    /\ last_image_time = 0
    /\ last_command_poll_time = 0
    /\ last_auto_water_check = 0
    /\ last_status_display = 0

NextReading == Validate

SpecReading == InitReading /\ [][NextReading]_vars

\* the methods of the client on what the retry core can return to them, on
\* an object whose attributes exist
InitWrapper ==
    /\ now = StartTime
    /\ PumpInit
    /\ MergeInit
    /\ initialized = TRUE
    /\ cresult \in {CReturned(r) : r \in CoreReturns}
    /\ consecutive_failures = IF cresult.resp = NoneResponse THEN 1 ELSE 0
    /\ last_successful_request =
          IF cresult.resp = NoneResponse THEN -1 ELSE now
    /\ cpc = "idle"
    /\ attempt = 0
    /\ log = <<>>
    /\ waits = <<>>
    /\ calls = 1
    /\ cbefore = NoCBefore
    /\ connected = "none"
    /\ opc = "new"
    /\ running = FALSE
    /\ ticks = 0
    /\ issued = 0
    /\ command = NoCommand
    /\ acks = <<>>
    /\ released = <<>>
    /\ env = "any"
    /\ valid = NotValidated
    /\ wrapped \in {Wrapping(w, b) : w \in Wrappers, b \in Bodies}
    /\ current_time = 0
    /\ sensor_data = NoReading
    /\ commands = <<>>
    /\ sent = NoReading
    /\ last_telemetry_time = 0
    /\ last_image_time = 0
    /\ last_command_poll_time = 0
    /\ last_auto_water_check = 0
    /\ last_status_display = 0

NextWrapper == Wrap

SpecWrapper == InitWrapper /\ [][NextWrapper]_vars

\* the main loop with the stop signal
NextStop ==
    \/ NextMonitor
    \/ Signal

SpecStop == InitMonitor /\ [][NextStop]_vars


(* ======================= PumpController: claims ======================= *)

InFlight == {"on", "wait", "off", "track", "recover"}
Done == pc = "idle" /\ result.status \in {"returned", "raised"}
Rejections == {"Pump already running", "Must wait"}

\* C1: no two activations overlap: an activation in flight holds is_running,
\* and an activate call made while is_running is true never gets past the
\* interlock check: it leaves the relay as it was and returns success=false
\* with the reason "Pump already running".
C1_NoOverlap ==
    /\ pc \in InFlight => is_running
    /\ (op = "activate" /\ before.running) =>
          /\ pc \in {"check", "idle"}
          /\ relay = before.relay
          /\ is_running
          /\ result.status = "returned" =>
                (~result.success /\ result.reason = "Pump already running")

C1_Witness ==
    /\ op = "activate" /\ before.running /\ pc = "idle"
    /\ result.status = "returned" /\ result.reason = "Pump already running"

\* C2 (as claimed): whenever activate has hit a fault after being accepted
\* (its except block was entered), it ends with the relay off and is_running
\* false and returns success=false with an error reason.
C2_FaultForcedOff ==
    (op = "activate" /\ Done /\ result.reason \in {"Error", "RuntimeError"}) =>
        /\ ~relay
        /\ ~is_running
        /\ result.status = "returned"
        /\ ~result.success

\* C3 (as claimed): right after emergency_stop(), is_running is false, the
\* relay is off and no exception reached the caller.
C3_StopAlwaysOff ==
    op = "emergency_stop" =>
        (~is_running /\ ~relay /\ result.status = "returned")

\* C3 (amended): right after emergency_stop(), is_running is false and no
\* exception reached the caller; the relay is off if the off-write went
\* through, and is as it was before the call if the write raised.
C3_EmergencyStop ==
    op = "emergency_stop" =>
        /\ ~is_running
        /\ result.status = "returned"
        /\ relay = (IF result.reason = "Warning" THEN before.relay ELSE FALSE)

C3_Witness ==
    /\ op = "emergency_stop" /\ before.running /\ before.relay
    /\ ~is_running /\ ~relay

\* C4: the duration is clamped to PUMP_MAX_DURATION before the interlock
\* check, and an activation requested for d >= 0 holds the relay on for
\* exactly min(d, PUMP_MAX_DURATION): that is what has passed when the wait
\* ends, and what a successful result reports.
C4_ClampedDuration ==
    /\ pc \in InActivate => duration = Min(call.req.v, MaxDur)
    /\ (pc = "wait" /\ ~use_mock) => relay
    /\ (pc \in {"off", "track"} /\ call.req.v >= 0) =>
          now - start_time = Min(call.req.v, MaxDur)
    /\ (op = "activate" /\ Done /\ result.success) =>
          /\ call.req.v >= 0
          /\ result.duration = Min(call.req.v, MaxDur)

C4_Witness ==
    /\ op = "activate" /\ Done /\ result.success
    /\ call.req.v > MaxDur /\ result.duration = MaxDur

\* C5: an activate call (or can_activate) made elapsed = now -
\* last_activation_time after a successful activation is refused with the
\* cooldown reason exactly when elapsed < PUMP_MIN_INTERVAL, the N of the
\* reason being PUMP_MIN_INTERVAL - elapsed rounded down to whole seconds;
\* an activation is accepted only when elapsed >= PUMP_MIN_INTERVAL.
C5_Cooldown ==
    /\ (/\ op \in {"activate", "can_activate"} /\ Done
        /\ result.status = "returned" /\ ~result.success
        /\ result.reason # "Error") =>
          LET left == MinInt - (now - last_activation_time) IN
          IF left > 0
          THEN /\ result.reason = "Must wait"
               /\ result.remaining * Res <= left
               /\ left < (result.remaining + 1) * Res
          ELSE result.reason = "Pump already running"
    /\ pc \in InFlight => start_time - last_activation_time >= MinInt

C5_Witness ==
    /\ op = "activate" /\ Done /\ total_activations >= 1
    /\ result.reason = "Must wait"
    /\ (MinInt - (now - last_activation_time)) % Res # 0
    /\ result.remaining > 0

\* C6 (as claimed): an activate call issued at the very instant a previous
\* activate call returned always fails with "already running" or "cooldown"
\* and never gets to run.
C6_SecondAlwaysFails ==
    (/\ op = "activate" /\ call.req.num
     /\ first \in {"success", "rejected", "error"}
     /\ result.reason # "SystemExit") =>
        /\ pc \in {"check", "idle"}
        /\ Done => (Kind(result) = "rejected" /\ result.reason \in Rejections)

\* C6 (amended): an activate call issued at the very instant a previous
\* activate call returned success, or returned a rejection, always fails with
\* "already running" or "cooldown" and never gets to run. (After a call that
\* returned an error result the next call can be accepted.)
C6_SecondFailsAfterSuccessOrRejection ==
    (/\ op = "activate" /\ call.req.num
     /\ first \in {"success", "rejected"}
     /\ result.reason # "SystemExit") =>
        /\ pc \in {"check", "idle"}
        /\ Done => (Kind(result) = "rejected" /\ result.reason \in Rejections)

C6_Witness ==
    /\ op = "activate" /\ first = "success" /\ Done
    /\ result.reason = "Must wait" /\ result.remaining = PUMP_MIN_INTERVAL

\* C7: an activation that begins after a completed one begins at least
\* PUMP_MIN_INTERVAL after that one switched the relay off, whichever call
\* site (auto-watering or water command) issued either of them.
C7_CooldownBetweenActivations ==
    (pc \in InFlight /\ ended_at >= 0) => start_time - ended_at >= MinInt

C7_Witness ==
    /\ pc = "track" /\ ended_at >= 0 /\ total_activations = 1
    /\ call.reason = "command"

\* C8 (as claimed): every activate call with a numeric duration returns a
\* result to its caller; no exception raised inside it reaches the caller.
C8_AlwaysReturns ==
    (op = "activate" /\ pc = "idle" /\ call.req.num) =>
        (result.status = "returned" \/ result.reason = "SystemExit")

\* C9: last_activation_time changes only in the bookkeeping that ends a
\* successful activation, after the off-write, and becomes the time of that
\* moment; no other step (the start of an activation, a rejection, a fault,
\* can_activate, emergency_stop) changes it.
C9_StampOnlyAtEnd ==
    [][last_activation_time' # last_activation_time =>
          /\ pc = "track" /\ pc' = "idle"
          /\ ~relay
          /\ result'.status = "returned" /\ result'.success
          /\ last_activation_time' = now
          /\ total_activations' = total_activations + 1]_vars

C9_Witness ==
    /\ op = "activate" /\ Done /\ result.success
    /\ last_activation_time = now /\ ~is_running
(* ======================= APIClient: claims ======================= *)

CallDone == cpc = "idle" /\ cresult.status \in {"returned", "raised"}

\* the shape of a finished run of the retry loop: attempts up to the first
\* terminal response or up to API_MAX_RETRIES of them, every attempt before
\* the last one retryable, and the result the terminal response, or None
LoopShape ==
    /\ Len(log) >= 1 /\ Len(log) <= API_MAX_RETRIES
    /\ \A i \in 1..(Len(log) - 1) : ~Terminal(log[i])
    /\ IF Terminal(log[Len(log)])
       THEN cresult.resp = log[Len(log)]
       ELSE Len(log) = API_MAX_RETRIES /\ cresult.resp = NoneResponse

\* C10 (as claimed): every call of the retry core makes attempts until the
\* first response with status < 500 or until API_MAX_RETRIES attempts have
\* been made, and gives back that response, or "no response".
C10_RetryCore ==
    CallDone => (cresult.status = "returned" /\ LoopShape)

\* A call that does return (one made after _init_ has been run on the
\* object by hand) has run the loop in the claimed shape.
RetryCoreWhenReturning ==
    (CallDone /\ cresult.status = "returned") => (initialized /\ LoopShape)

\* the call that just returned made API_MAX_RETRIES attempts, all failing
Exhausted ==
    /\ CallDone
    /\ Len(log) = API_MAX_RETRIES
    /\ \A i \in 1..Len(log) : ~Terminal(log[i])

\* the call that just returned ended with a terminal response
EndedTerminal ==
    /\ CallDone
    /\ cresult.status = "returned"
    /\ cresult.resp.kind = "response"

\* C11 (as claimed): starting from consecutive_failures = 0, a call whose
\* API_MAX_RETRIES attempts all fail returns None and leaves
\* consecutive_failures = API_MAX_RETRIES.
C11_ExhaustedCountsAttempts ==
    (Exhausted /\ cbefore.failures = 0) =>
        /\ cresult = CReturned(NoneResponse)
        /\ consecutive_failures = API_MAX_RETRIES

\* C11 (amended): starting from consecutive_failures = 0, a call whose
\* API_MAX_RETRIES attempts all fail returns None and leaves
\* consecutive_failures = 1: the counter counts exhausted calls, not attempts.
C11_ExhaustedCountsOnce ==
    (Exhausted /\ cbefore.failures = 0) =>
        /\ cresult = CReturned(NoneResponse)
        /\ consecutive_failures = 1

C11_Witness ==
    /\ Exhausted
    /\ cbefore.failures = 0
    /\ cresult = CReturned(NoneResponse)
    /\ consecutive_failures = 1

RECURSIVE SumSeq(_)
SumSeq(q) == IF q = <<>> THEN 0 ELSE q[1] + SumSeq(Tail(q))

\* C12: within one call of _make_request the wait after failed attempt k
\* (0-indexed) is API_RETRY_DELAY * 2^k seconds and the call has slept exactly
\* its waits; there is a wait only between two attempts: none before the
\* first attempt, none after the last attempt, none after a terminal response.
C12_Backoff ==
    /\ \A k \in 0..(Len(waits) - 1) :
          /\ waits[k + 1] = API_RETRY_DELAY * (2 ^ k) * Res
          /\ ~Terminal(log[k + 1])
    /\ cpc = "attempt" => Len(waits) = Len(log)
    /\ cpc = "backoff" =>
          /\ Len(waits) = Len(log) - 1
          /\ Len(log) < API_MAX_RETRIES
    /\ cpc # "idle" => now = cbefore.at + SumSeq(waits)
    /\ (CallDone /\ cresult.status = "returned") =>
          /\ Len(waits) = Len(log) - 1
          /\ now = cbefore.at + SumSeq(waits)

C12_Witness ==
    /\ EndedTerminal
    /\ Len(log) = API_MAX_RETRIES
    /\ Len(waits) = API_MAX_RETRIES - 1
    /\ waits[2] = 2 * waits[1]
    /\ now = cbefore.at + waits[1] + waits[2]

\* C13: after a call that ends with a terminal response consecutive_failures
\* is 0 and last_successful_request is the time of that response; after a
\* call that exhausts its retries consecutive_failures is one greater than
\* before the call and last_successful_request is unchanged.
C13_HealthAfterCall ==
    /\ EndedTerminal =>
          /\ consecutive_failures = 0
          /\ last_successful_request = now
    /\ Exhausted =>
          /\ consecutive_failures = cbefore.failures + 1
          /\ last_successful_request = cbefore.last_success

C13_Witness ==
    /\ EndedTerminal
    /\ cbefore.failures >= 1
    /\ consecutive_failures = 0
    /\ last_successful_request = now
    /\ cbefore.last_success # now

\* an exhausted call that follows another exhausted call
ExhaustedTwice ==
    /\ Exhausted
    /\ cbefore.failures = 1
    /\ consecutive_failures = 2

\* C14 (as claimed): on a client obtained by constructing APIClient,
\* is_connected returns False before any request has succeeded, and after a
\* success it returns True exactly when fewer than CONNECTED_WINDOW seconds
\* have passed since the most recent success.
C14_IsConnected ==
    connected # "none" =>
        connected =
           IF last_successful_request # -1
              /\ now - last_successful_request < CONNECTED_WINDOW * Res
           THEN "True" ELSE "False"

\* On an object on which _init_ has been run by hand is_connected answers
\* as claimed, on both sides of the window.
IsConnectedWhenInitialized ==
    (initialized /\ connected # "none") => C14_IsConnected

ConnectedJustInside ==
    /\ connected = "True"
    /\ now - last_successful_request = CONNECTED_WINDOW * Res - 1

DisconnectedAtWindow ==
    /\ connected = "False"
    /\ last_successful_request # -1
    /\ now - last_successful_request = CONNECTED_WINDOW * Res

(* ======================= thresholds: claims ======================= *)

\* the detections of the last merge
Merged == payload.merged
Listed == IF payload.listed THEN payload.detections ELSE <<>>

\* the detection a merge is to select: of maximum confidence, and the first
\* of those in list order
Selected ==
    CHOOSE i \in 1..Len(Listed) :
        /\ \A j \in 1..Len(Listed) : key(Listed[j]).v <= key(Listed[i]).v
        /\ \A j \in 1..(i - 1) : key(Listed[j]).v < key(Listed[i]).v

\* the thresholds object of the selected detection (empty when it has none)
Remote == Listed[Selected].plantType.thresholds

Same ==
    /\ thresholds = tbefore
    /\ DOMAIN thresholds = DOMAIN tbefore

\* C15: from a non-empty detection list a merge selects the detection of
\* maximum confidence, the first of them in list order when several tie, and
\* the thresholds applied are that detection's; of two detections with
\* confidences 0.6 and 0.9 it is the 0.9 one, in either order.
C15_DominantDetection ==
    (Merged /\ Listed # <<>>) =>
        /\ thresholds = update(tbefore, Remote)
        /\ \A i, j \in 1..Len(Listed) :
              (key(Listed[i]) = Num(60) /\ key(Listed[j]) = Num(90)
                 /\ Len(Listed) = 2)
              => thresholds = update(tbefore, Listed[j].plantType.thresholds)

C15_Witness ==
    /\ Merged
    /\ Len(Listed) = 2
    /\ Listed[1].confidence = Confidence(Num(60))
    /\ Listed[2].confidence = Confidence(Num(90))
    /\ ~Listed[1].plantType.named /\ Listed[1].plantType.present
    /\ Listed[2].plantType.name = "Fern"
    /\ thresholds["soil_min"] = Num(45)
    /\ thresholds["temp_max"] = Num(DEFAULT_TEMP_MAX)

\* a tie: the first of two detections of equal confidence is the one applied
TieTakesFirst ==
    /\ Merged
    /\ Len(Listed) = 2
    /\ Listed[1].confidence = Listed[2].confidence
    /\ Listed[1].confidence = Confidence(Num(90))
    /\ Listed[1].plantType.name = "Fern"
    /\ ~Listed[2].plantType.named /\ Listed[2].plantType.present
    /\ thresholds["soil_min"] = Num(45)
    /\ thresholds["temp_max"] = Num(DEFAULT_TEMP_MAX)

\* C16: a merge sets each field present in the selected detection's
\* thresholds object to the remote value and leaves every other field as it
\* was; a payload with an empty or missing detection list changes nothing.
C16_MergeFrame ==
    Merged =>
        IF Listed = <<>> THEN Same
        ELSE /\ DOMAIN thresholds = DOMAIN tbefore \cup DOMAIN Remote
             /\ \A k \in DOMAIN Remote : thresholds[k] = Remote[k]
             /\ \A k \in DOMAIN tbefore \ DOMAIN Remote :
                   thresholds[k] = tbefore[k]

C16_Witness ==
    /\ Merged
    /\ Listed # <<>>
    /\ Listed[Selected].plantType.name = "Fern"
    /\ tbefore["soil_min"] # Num(45)
    /\ thresholds["soil_min"] = Num(45)
    /\ tbefore["temp_max"] # Num(DEFAULT_TEMP_MAX)
    /\ thresholds["temp_max"] = tbefore["temp_max"]

\* a merge whose payload has no detection list, after one that changed fields
NoListNoChange ==
    /\ Merged
    /\ ~payload.listed
    /\ thresholds # DefaultThresholds
    /\ Same

\* C17 (as claimed): whatever payloads have been merged, all eight threshold
\* fields are present and hold a number.
C17_FullyPopulated ==
    \A k \in Fields : k \in DOMAIN thresholds /\ thresholds[k].num

\* no merge removes a field: the eight keys stay in the dict
FieldsPresent == Fields \subseteq DOMAIN thresholds

(* ======================= PlantMonitor: claims ======================= *)

\* the positions of the main thread
Positions == {"new", "telemetry", "t_sent", "t_watering", "t_follow", "image",
              "i_uploaded", "commands", "c_polled", "c_next", "c_started",
              "c_activating", "c_completed", "c_follow", "c_acked", "status",
              "sleep", "shutdown", "sd_sensors", "sd_camera", "sd_pump",
              "stopped"}
MonitorOK == opc \in Positions

\* a task is due when the main thread reaches it
TelemetryDue == now - last_telemetry_time >= TELEMETRY_INTERVAL * Res
ImageDue == now - last_image_time >= IMAGE_CAPTURE_INTERVAL * Res
CommandsDue == now - last_command_poll_time >= COMMAND_POLL_INTERVAL * Res
StatusDue == now - last_status_display >= STATUS_INTERVAL * Res

\* the step with which a task that was due, and whose body therefore ran,
\* returns to run
TelemetryDone ==
    /\ opc' = "image"
    /\ \/ opc = "telemetry" /\ TelemetryDue
       \/ opc \in {"t_sent", "t_watering", "t_follow"}
ImageDone ==
    /\ opc' = "commands"
    /\ \/ opc = "image" /\ ImageDue
       \/ opc = "i_uploaded"
CommandsDone ==
    /\ opc' = "status"
    /\ \/ opc = "commands" /\ CommandsDue
       \/ opc \in {"c_polled", "c_next"}
StatusDone == opc = "status" /\ StatusDue /\ opc' = "sleep"

\* C18: for each of the telemetry, image, command-poll and status tasks,
\* whenever the body of the task has run, the last-run timestamp of the task
\* is the time at which the body completed, however long the body took.
C18_StampAfterBody ==
    [][ /\ TelemetryDone => last_telemetry_time' = now'
        /\ ImageDone => last_image_time' = now'
        /\ CommandsDone => last_command_poll_time' = now'
        /\ StatusDone => last_status_display' = now' ]_vars

\* what the code does instead: a timestamp that changes takes the time at
\* which its task began (the status timestamp: the time after display_status)
StampsTaskStart ==
    [][ /\ last_telemetry_time' # last_telemetry_time
            => last_telemetry_time' = current_time
        /\ last_image_time' # last_image_time
            => last_image_time' = current_time
        /\ last_command_poll_time' # last_command_poll_time
            => last_command_poll_time' = current_time
        /\ last_status_display' # last_status_display
            => last_status_display' = now' ]_vars

\* a task whose body took time has run to its end
SlowBodyDone ==
    /\ opc = "status"
    /\ last_command_poll_time = current_time
    /\ current_time < now

\* the reading of this cycle fails the validity check
InvalidReadingTaken ==
    /\ opc = "telemetry"
    /\ TelemetryDue
    /\ sensor_data'.taken
    /\ ~is_reading_valid(sensor_data')

\* C19: when the reading taken in a telemetry cycle fails is_reading_valid,
\* the telemetry timestamp is still updated, so that the task is not due
\* again before TELEMETRY_INTERVAL has elapsed.
C19_InvalidReadingStamps ==
    [][ InvalidReadingTaken =>
            /\ last_telemetry_time' = now'
            /\ ~TelemetryDue' ]_vars

\* the sensors are read again on the next iteration, one second later
ReadAgainNextTick ==
    /\ opc = "t_sent"
    /\ ticks > 1
    /\ now - StartTime < TELEMETRY_INTERVAL * Res
    /\ last_telemetry_time = 0

\* C20: no call of send_telemetry is made with a reading that fails the
\* validity check, the follow-up reading after an auto-watering or a water
\* command included.
C20_OnlyValidReadingsSent == sent.taken => is_reading_valid(sent)

\* the reading of the telemetry task itself is sent only when it is valid
TaskReadingValid ==
    (opc = "t_sent" /\ sent.taken) => is_reading_valid(sent)

\* an invalid follow-up reading is on its way to the backend
InvalidFollowUpSent ==
    /\ opc \in {"t_follow", "c_follow"}
    /\ sent.taken
    /\ ~is_reading_valid(sent)

\* the step of a telemetry cycle at which the watering decision falls, or at
\* which the cycle ends without reaching it
CycleDecided ==
    \/ opc = "telemetry" /\ TelemetryDue /\ opc' # "t_sent"
    \/ opc = "t_sent" /\ opc' # "t_sent"

\* pump.activate(AUTO_WATER_DURATION, reason="auto") is called
AutoCalled ==
    /\ opc' = "t_watering"
    /\ op' = "activate"
    /\ call' = [reason |-> "auto", req |-> Num(AUTO_WATER_DURATION * Res)]

\* the reading of the cycle is valid, the watering check is due, and soil_pct
\* is present and strictly below thresholds.soil_min
WaterConditions ==
    /\ sensor_data'.taken
    /\ is_reading_valid(sensor_data')
    /\ current_time' - last_auto_water_check
           >= AUTO_WATER_CHECK_INTERVAL * Res
    /\ sensor_data'.soil_pct.num
    /\ thresholds["soil_min"].num
    /\ sensor_data'.soil_pct.v < thresholds["soil_min"].v

\* C21: in a telemetry cycle activate(AUTO_WATER_DURATION, "auto") is called
\* exactly when the reading is valid, AUTO_WATER_CHECK_INTERVAL has elapsed
\* since the previous watering check, and soil_pct is present and strictly
\* below thresholds.soil_min.
C21_AutoWaterDecision ==
    [][ /\ CycleDecided => (AutoCalled <=> WaterConditions)
        /\ (op' = "activate" /\ call'.reason = "auto" /\ op # "activate")
               => (opc = "t_sent" /\ WaterConditions) ]_vars

\* once send_telemetry has returned, the decision is the claimed one
AutoWaterWhenSent ==
    [][ (opc = "t_sent" /\ opc' # "t_sent")
            => (AutoCalled <=> WaterConditions) ]_vars

\* a dry valid reading has led to the auto-watering call
AutoWatering ==
    /\ opc = "t_watering"
    /\ call.reason = "auto"
    /\ sensor_data.soil_pct.v < thresholds["soil_min"].v

\* a dry valid reading in a cycle whose watering check is not yet due
DryButNotDue ==
    /\ opc = "image"
    /\ sensor_data.taken
    /\ is_reading_valid(sensor_data)
    /\ sensor_data.soil_pct.v < DEFAULT_SOIL_MIN
    /\ last_telemetry_time = current_time
    /\ 0 < last_auto_water_check
    /\ last_auto_water_check < current_time

\* the main thread is inside pump.activate, called by execute_command
CommandAttempt == op = "activate" /\ call.reason = "command"
\* pump.activate returns to execute_command, line 281
AttemptReturns ==
    /\ opc = "c_activating"
    /\ opc' # "c_activating"
    /\ result.status = "returned"
\* execute_command returns to the loop of process_commands
CommandEnds == opc \in {"c_acked", "c_follow"} /\ opc' = "c_next"

\* C22: a water command is acknowledged "started" before pump.activate is
\* attempted, and when the attempt returns exactly one more acknowledgement
\* follows: "completed" when the result has success true, "failed" with the
\* reason of the result otherwise
C22_WaterAcksInOrder ==
    [][ /\ command'.type = "water" =>
              /\ CommandAttempt' => acks' = <<Ack("started", "")>>
              /\ opc' \in {"c_started", "c_activating"}
                     => acks' = <<Ack("started", "")>>
        /\ command.type = "water" =>
              /\ AttemptReturns =>
                    acks' = <<Ack("started", ""),
                              IF result.success
                              THEN Ack("completed", "")
                              ELSE Ack("failed", result.reason)>>
              /\ opc \in {"c_completed", "c_follow", "c_acked"}
                     => acks' \in {acks, <<>>}
              /\ CommandEnds => Len(acks) = 2 ]_vars
WaterCompletedAcked ==
    /\ opc = "c_follow"
    /\ command.type = "water"
    /\ acks = <<Ack("started", ""), Ack("completed", "")>>
WaterFailedAcked ==
    /\ opc = "c_acked"
    /\ command.type = "water"
    /\ Len(acks) = 2
    /\ acks[2].status = "failed"
    /\ acks[2].error # ""

\* execute_command is running on a command whose type is not "water"
UnknownCommand == command.type \notin {"water", "none"}

\* C23: a command of unknown type is acknowledged "failed" with the detail
\* "Unknown command type", starts no pump activation and leaves the pump as
\* it was, and the loop goes on with the rest of the batch
C23_UnknownCommandFails ==
    [][ /\ UnknownCommand' =>
              /\ acks' = <<Ack("failed", "Unknown command type")>>
              /\ opc' = "c_acked"
              /\ pvars' = pvars
              /\ op' = "none"
              /\ running'
        /\ UnknownCommand =>
              /\ opc' \in {"c_acked", "c_next"}
              /\ opc' = "c_next" =>
                    /\ commands' = Tail(commands)
                    /\ running' ]_vars
UnknownAcked ==
    /\ opc = "c_acked"
    /\ command.type = "reboot"
    /\ Len(commands) = 2
    /\ returned
\* the mock pump was never activated, so the command handed out in the first
\* tick was of unknown type, and the loop is in its next tick
NextTickAfterUnknown ==
    /\ use_mock
    /\ ticks = 2
    /\ issued >= 1
    /\ total_activations = 0
    /\ opc = "telemetry"

Releasing == opc \in {"sd_sensors", "sd_camera", "sd_pump", "stopped"}
IsPrefix(a, b) == Len(a) <= Len(b) /\ a = SubSeq(b, 1, Len(a))

\* C24: shutdown calls pump.emergency_stop before it releases the sensors,
\* the camera or the pump, whatever the loop was doing when it ended: no
\* resource is released before the step that calls emergency_stop, and the
\* releases follow in the order sensors, camera, pump
C24_StopBeforeRelease ==
    [][ /\ (opc = "shutdown" /\ opc' # "shutdown") =>
              /\ op' = "emergency_stop"
              /\ ~is_running'
              /\ ~running'
              /\ released = <<>>
              /\ released' = <<>>
        /\ released' # released =>
              /\ Releasing
              /\ op = "emergency_stop"
              /\ ~is_running
              /\ IsPrefix(released', <<"sensors", "camera", "pump">>)
        /\ ~Releasing' => released' = <<>> ]_vars
\* the sensors are released after a pump that was holding the relay on when
\* the loop ended has been stopped
StoppedThenReleased ==
    /\ opc = "sd_camera"
    /\ released = <<"sensors">>
    /\ op = "emergency_stop"
    /\ before.running
    /\ ~is_running

\* the step with which the main thread leaves the loop of run
LoopEnds == opc \in InLoop /\ opc' \notin InLoop

\* C25: however the loop of run ends, by an exception of a task or by the
\* SystemExit or KeyboardInterrupt of a stop request, the main thread goes
\* to shutdown, which then runs: the flag `running` is cleared by shutdown
\* only, and the program has stopped only after shutdown released all
C25_LoopEndsInShutdown ==
    [][ /\ LoopEnds => opc' = "shutdown"
        /\ opc = "shutdown" =>
              ENABLED (\E o \in WriteOutcomes : WriteGives(o) /\ Shutdown(o))
        /\ (running /\ ~running') => (opc = "shutdown" /\ Releasing')
        /\ opc' = "stopped" =>
              /\ ~running'
              /\ released' = <<"sensors", "camera", "pump">> ]_vars
EndedBySignal ==
    /\ opc = "shutdown"
    /\ result = Raised("SystemExit")
    /\ is_running
    /\ running
EndedByTaskError == opc = "shutdown" /\ running /\ ~initialized

\* the main thread is in time.sleep: the hold of activate (pump.py line
\* 141), the backoff of _make_request, or the sleep of the loop (line 386)
InBlockingWait == pc = "wait" \/ cpc = "backoff" \/ opc = "sleep"
\* the stop signal arrives
Signalled == opc \in InLoop /\ opc' = "shutdown" /\ UNCHANGED now
\* an off-write of shutdown that leaves the relay on has raised
StillOnOnlyIfRaised == relay' => (relay /\ result'.reason = "Warning")

\* C26: a stop signal during a blocking wait ends the wait, shutdown runs,
\* and the program ends with the relay off and is_running false
C26_StoppedOff == opc = "stopped" => (~relay /\ ~is_running)
\* C26, amended: a stop signal during a blocking wait ends the wait without
\* the off-write of the interrupted activation; shutdown then clears
\* is_running, and the relay is off at the end unless the off-writes of
\* emergency_stop and of pump.cleanup both raised
C26_StoppedOffUnlessWritesFail ==
    [][ /\ (InBlockingWait /\ Signalled) =>
              /\ pc' = "idle"
              /\ cpc' = "idle"
              /\ relay' = relay
              /\ is_running' = is_running
              /\ is_running = (pc \in InFlight)
        /\ (opc = "shutdown" /\ opc' # "shutdown") =>
              /\ opc' = "sd_sensors"
              /\ ~is_running'
              /\ StillOnOnlyIfRaised
        /\ (opc = "sd_pump" /\ opc' # "sd_pump") =>
              /\ opc' = "stopped"
              /\ StillOnOnlyIfRaised
        /\ Releasing' => ~is_running'
        /\ (Releasing' /\ (use_mock \/ env # "gpio")) => ~relay' ]_vars
HoldInterruptedAndStopped ==
    /\ opc = "sd_sensors"
    /\ ~use_mock
    /\ op = "emergency_stop"
    /\ before.running
    /\ before.relay
    /\ ~relay
    /\ ~is_running
\* both off-writes of shutdown raised after an interrupted hold
StoppedWithRelayOn == opc = "stopped" /\ relay /\ ~is_running

(* ======================= SensorReader: claims ======================= *)

AllAbsent(r) ==
    /\ ~r.soil_pct.num
    /\ ~r.temperature_c.num
    /\ ~r.humidity_pct.num
    /\ ~r.lux.num
TooHot(r) == r.temperature_c.num /\ r.temperature_c.v > SAFETY_MAX_TEMP
TooHumid(r) == r.humidity_pct.num /\ r.humidity_pct.v > SAFETY_MAX_HUMIDITY

\* C28: with the safety checks enabled, is_reading_valid returns false
\* exactly when all four sensor fields are None, or the temperature is
\* present and above SAFETY_MAX_TEMP, or the humidity is present and above
\* SAFETY_MAX_HUMIDITY; values at the ceilings and readings with some
\* fields None are valid
C28_ValidityRule ==
    (ENABLE_SAFETY_CHECKS /\ valid.called) =>
        (valid.value = FALSE) <=>
            (AllAbsent(sensor_data) \/ TooHot(sensor_data)
                \/ TooHumid(sensor_data))
PartialAtCeilingsValid ==
    /\ valid = Validity(TRUE)
    /\ ~sensor_data.soil_pct.num
    /\ sensor_data.temperature_c = Num(SAFETY_MAX_TEMP)
    /\ sensor_data.humidity_pct = Num(SAFETY_MAX_HUMIDITY)
TooHumidInvalid ==
    /\ valid = Validity(FALSE)
    /\ sensor_data.humidity_pct = Num(SAFETY_MAX_HUMIDITY + 1)
    /\ sensor_data.temperature_c = Num(SAFETY_MAX_TEMP)
AllAbsentInvalid == valid = Validity(FALSE) /\ AllAbsent(sensor_data)

(* ======================= thresholds in the loop: claims ================= *)

\* the image task has an answer 201 to its upload in hand and goes on
UploadSucceeded ==
    /\ opc = "i_uploaded"
    /\ opc' = "commands"
    /\ cresult.resp = Response(201)
\* the new thresholds are the old ones updated by the thresholds object of
\* the detection of some upload result
MergedFromUpload ==
    \E p \in UploadData :
        /\ p.merged
        /\ p.listed
        /\ p.detections # <<>>
        /\ thresholds' =
              update(thresholds, p.detections[1].plantType.thresholds)

\* C29: the thresholds change only in the step of the image task that
\* follows a successful upload, and then by a merge of the upload result;
\* every other step of the loop leaves each field as it was
C29_ThresholdsOnlyByMerge ==
    [][ thresholds' # thresholds => (UploadSucceeded /\ MergedFromUpload)
      ]_vars
ThresholdsMergedInLoop ==
    /\ opc = "commands"
    /\ last_image_time = current_time
    /\ thresholds # tbefore
    /\ identified_plant # "None"

(* ======================= can_activate and activate: claims ============== *)

\* the interlock of an activation: the pump is not running and the cooldown
\* since the last activation is over
CooldownLeft == MinInt - (now - last_activation_time)
Passes == ~is_running /\ CooldownLeft <= 0
RejectReason == IF is_running THEN "Pump already running" ELSE "Must wait"
\* can_activate() returns; activate leaves its interlock check (line 123)
QueryReturns == op' = "can_activate"
InterlockChecked ==
    /\ pc = "check"
    /\ pc' # "check"
    /\ result' # Raised("SystemExit")
Rejected(r) ==
    /\ r.status = "returned"
    /\ ~r.success
    /\ r.reason = RejectReason
    /\ (~is_running) =>
          /\ r.remaining * Res <= CooldownLeft
          /\ CooldownLeft < (r.remaining + 1) * Res

\* C30: can_activate() changes neither the state of the controller nor the
\* relay, and it returns true exactly when activate, called at the same
\* instant on the same state, gets past its interlock check; when it
\* returns false, the reason is the one activate returns
C30_QueryAgreesWithActivate ==
    [][ /\ QueryReturns =>
              /\ UNCHANGED <<now, use_mock, is_running, last_activation_time,
                             total_activations, relay, pc, duration,
                             start_time, ended_at>>
              /\ result'.status = "returned"
              /\ result'.success = Passes
              /\ ~Passes => Rejected(result')
        /\ InterlockChecked =>
              /\ (pc' = "on") = Passes
              /\ ~Passes => (pc' = "idle" /\ Rejected(result')) ]_vars
QueryRejectsWhileRunning ==
    /\ op = "can_activate"
    /\ is_running
    /\ result = Returned(FALSE, "Pump already running", 0, 0)
QueryRejectsInCooldown ==
    /\ op = "can_activate"
    /\ ~is_running
    /\ result.reason = "Must wait"
    /\ result.remaining > 0

(* ======================= the methods of the client: claims ============== *)

\* the value a method returns for a failure
FailureValue(w) ==
    IF w \in {"send_telemetry", "acknowledge_command"} THEN "False"
    ELSE IF w = "poll_commands" THEN "[]"
    ELSE "None"
\* the value a method returns for a success: true, or what the body carries
SuccessValue(w, b) ==
    IF w \in {"send_telemetry", "acknowledge_command"} THEN "True"
    ELSE IF w = "poll_commands" THEN b.commands
    ELSE b.data
Created == cresult.resp = Response(201)
Fine == cresult.resp = Response(200)

\* C31: a method of the client reports success exactly when the retry core
\* returned a response with the success status of that method, 201 for
\* send_telemetry and upload_image and 200 for poll_commands,
\* acknowledge_command and get_command_status; on None and on every other
\* status it returns its failure value: False, None or an empty list
C31_WrapperSuccessStatus ==
    wrapped.called =>
        LET w == wrapped.method
            hit == IF w \in {"send_telemetry", "upload_image"}
                   THEN Created ELSE Fine
        IN  /\ hit => wrapped.value = SuccessValue(w, wrapped.body)
            /\ ~hit => wrapped.value = FailureValue(w)
PollRefusesCreated ==
    /\ wrapped.called
    /\ wrapped.method = "poll_commands"
    /\ Created
    /\ wrapped.body.commands = "commands"
    /\ wrapped.value = "[]"
TelemetryCreated ==
    /\ wrapped.called
    /\ wrapped.method = "send_telemetry"
    /\ Created
    /\ wrapped.value = "True"
NoResponseFails ==
    /\ wrapped.called
    /\ wrapped.method = "upload_image"
    /\ cresult.resp = NoneResponse
    /\ wrapped.body.data = "data"
    /\ wrapped.value = "None"

\* the off-write of an emergency_stop raised and was swallowed while the relay
\* was energized (lines 176-180)
StopSwallowed ==
    op = "emergency_stop" /\ result.reason = "Warning" /\ before.relay

\* C32 (as claimed): at every reachable state of the pump controller the
\* relay is energized only if is_running is true, the states reached after
\* rejected activations, actuator faults and emergency_stop included.
C32_RelayOnlyWhileRunning == relay => is_running

\* C32 (amended): the relay is energized only if is_running is true, the
\* states reached after rejected activations and after faults of activate
\* included, until an emergency_stop's off-write raises: a state with the
\* relay energized and is_running false is entered only by an emergency_stop
\* whose off-write raised while the relay was energized.
C32_RelayOnlyWhileRunningUnlessStopFailed ==
    [][(relay' /\ ~is_running') =>
          ((relay /\ ~is_running) \/ StopSwallowed')]_vars
RelayOnAfterFault ==
    /\ op = "activate" /\ pc = "idle" /\ result = Raised("RuntimeError")
    /\ relay /\ is_running
RelayOffAfterRejection ==
    /\ op = "activate" /\ pc = "idle" /\ result.status = "returned"
    /\ result.reason \in Rejections /\ ~relay
RelayOnAfterStop ==
    StopSwallowed /\ relay /\ ~is_running

\* the interlock of an activate call that passed line 120 says no
Refusing == pc = "check" /\ ~can_activate.ok

\* C33: an activate call rejected by the interlock (already running or
\* cooldown) leaves is_running, last_activation_time, total_activations and
\* the relay unchanged, from the call to the return, and returns
\* success=false with an executed duration of 0.
C33_RejectionChangesNothing ==
    [][/\ (pc = "idle" /\ pc' = "check") =>
             UNCHANGED <<is_running, last_activation_time,
                         total_activations, relay>>
       /\ (Refusing /\ result'.status = "returned") =>
             /\ UNCHANGED <<is_running, last_activation_time,
                            total_activations, relay>>
             /\ pc' = "idle"
             /\ ~result'.success
             /\ result'.reason \in Rejections
             /\ result'.duration = 0]_vars
RejectedWhileRelayOn ==
    /\ op = "activate" /\ Done /\ result.reason = "Pump already running"
    /\ result.duration = 0 /\ relay /\ is_running
RejectedInCooldown ==
    /\ op = "activate" /\ Done /\ result.reason = "Must wait"
    /\ result.duration = 0 /\ ~is_running /\ total_activations = 1
    /\ call.req.v > 0

\* the step on which an activate call returns success=true
ReturnsSuccess ==
    /\ op' = "activate"
    /\ result.status # "returned"
    /\ result'.status = "returned"
    /\ result'.success

CountKeptByStop ==
    /\ total_activations = 1
    /\ op = "emergency_stop" /\ before.running
CountedTwice ==
    /\ total_activations = 2
    /\ op = "activate" /\ Done /\ result.success

\* an activate call of a controller that has completed no activation, made
\* while is_running was false, has returned
FirstReturned ==
    /\ op = "activate" /\ Done /\ result.status = "returned"
    /\ total_activations = 0 /\ ended_at < 0
    /\ ~before.running

\* C35 (as claimed): a controller that has never completed an activation is
\* never rejected for cooldown, whatever the clock value: an activate call it
\* gets while is_running is false does not return the "Must wait" rejection.
C35_FirstNeverInCooldown ==
    FirstReturned => result.reason # "Must wait"
FirstRejectedForCooldown ==
    /\ FirstReturned
    /\ now < MinInt
    /\ result.reason = "Must wait"
    /\ result.remaining * Res = MinInt - now

\* the last attempt of a finished call of the retry core got the status code
Answered(code) ==
    /\ cpc = "idle"
    /\ cresult.status = "returned"
    /\ log # <<>>
    /\ log[Len(log)] = Response(code)

\* C36: a response with a 4xx status updates connection health exactly as a
\* 2xx response does: the call ends with it, consecutive_failures is 0 and
\* last_successful_request is the time of the response, so is_connected()
\* called right afterwards is true, although every method of the client
\* returns its failure value for it.
C36_ClientErrorKeepsHealth ==
    \A code \in {200, 201, 404} :
        Answered(code) =>
            /\ cresult.resp = Response(code)
            /\ consecutive_failures = 0
            /\ last_successful_request = now
            /\ connected \in {"none", "True"}
            /\ code = 404 =>
                  \A w \in Wrappers : \A b \in Bodies :
                      wrapper(w, cresult.resp, b) = FailureValue(w)
ConnectedAfterClientError ==
    /\ Answered(404)
    /\ cbefore.failures >= 1
    /\ consecutive_failures = 0
    /\ connected = "True"
ConnectedAfterSuccess ==
    /\ Answered(200)
    /\ cbefore.failures >= 1
    /\ connected = "True"

\* the detection selected by the last merge carries no plant type, or one
\* without thresholds
Bare ==
    /\ Merged
    /\ Listed # <<>>
    /\ LET pt == Listed[Selected].plantType IN
       ~pt.present \/ pt.thresholds = NoThresholds

\* C37: when the maximum-confidence detection carries no plant type, or a
\* plant type with no thresholds object or an empty one, the merge leaves
\* all thresholds and the identified plant unchanged, even if a detection of
\* lower confidence in the same payload carries thresholds.
C37_BareDominantChangesNothing ==
    [][(~Merged /\ Bare') =>
          UNCHANGED <<thresholds, identified_plant>>]_vars
LowerCarriesThresholds ==
    /\ Bare
    /\ Listed[Selected].plantType.present
    /\ \E j \in 1..Len(Listed) :
          /\ key(Listed[j]).v < key(Listed[Selected]).v
          /\ Listed[j].plantType.thresholds # NoThresholds
    /\ Same
NoPlantTypeOverNamed ==
    /\ Bare
    /\ ~Listed[Selected].plantType.present
    /\ \E j \in 1..Len(Listed) :
          /\ key(Listed[j]).v < key(Listed[Selected]).v
          /\ Listed[j].plantType = PlantType("Fern", [soil_min |-> Num(45),
                                                     humidity_max |-> Num(90)])
    /\ identified_plant = "None"

\* the task the main thread is about to enter is due
Due(last, interval) == now - last >= interval * Res

\* C38 (as claimed): on the first tick after a PlantMonitor is constructed
\* the telemetry, image, command-poll and status tasks are all due when the
\* main thread comes to them, and the main thread stays inside the loop: the
\* tick does not end in shutdown.
C38_FirstTickRunsAllTasks ==
    ticks = 1 =>
        /\ opc \in InLoop
        /\ opc = "telemetry" => Due(last_telemetry_time, TELEMETRY_INTERVAL)
        /\ opc = "image" => Due(last_image_time, IMAGE_CAPTURE_INTERVAL)
        /\ opc = "commands" =>
              Due(last_command_poll_time, COMMAND_POLL_INTERVAL)
        /\ opc = "status" => Due(last_status_display, STATUS_INTERVAL)

\* on a constructed client the first tick ends in shutdown; it comes to its
\* sleep only on a client on which _init_ was run by hand
FirstTickCompletesOnlyInitialized ==
    (ticks = 1 /\ opc = "sleep") => initialized
FirstTickEndsLoop ==
    /\ ticks = 1 /\ ~initialized /\ opc = "shutdown"
    /\ last_image_time = 0 /\ last_command_poll_time = 0
FirstTickCompleted ==
    /\ ticks = 1 /\ opc = "sleep" /\ initialized
    /\ last_telemetry_time = now /\ last_image_time = now
    /\ last_command_poll_time = now /\ last_status_display = now

\* C39 (as claimed): execute_command returns normally for every polled
\* command, whatever its type and payload: while a command is being executed
\* the main thread stays inside the loop, so that the rest of the batch is
\* processed and the time of the poll is recorded.
C39_ExecuteCommandReturns ==
    command.type # "none" => opc \in InLoop

\* the loop has ended on a water command whose payload is null
NullPayloadEndsLoop ==
    /\ opc = "shutdown"
    /\ command.type = "water" /\ command.null
    /\ acks = <<>>
    /\ Len(commands) = 2
    /\ last_command_poll_time = 0
\* the loop has ended on a water command whose duration is null or no number
BadDurationEndsLoop ==
    /\ opc = "shutdown"
    /\ command.type = "water" /\ ~command.null
    /\ command.has_duration /\ ~command.duration.num
    /\ acks = <<Ack("started", "")>>
    /\ last_command_poll_time = 0
\* a water command without a duration is run for the default duration
DefaultDurationRuns ==
    /\ opc = "c_follow"
    /\ command.type = "water" /\ ~command.has_duration
    /\ acks = <<Ack("started", ""), Ack("completed", "")>>
====
